---- MODULE Spec2Model ----
(***************************************************************************)
(* Line-oriented command/response transport of the macro pad configurator. *)
(*                                                                         *)
(*  - the framing done by the read loops (serial.ts, realSerial.ts)        *)
(*  - EmulatedSerialConnection and its MockMacroPadDevice                  *)
(*  - RealSerialConnection over a Web Serial port                          *)
(*                                                                         *)
(* JavaScript runs every callback to completion, so one action is one      *)
(* synchronous run of code: from a call or a continuation up to the next   *)
(* await or the return.  Timers (setTimeout/setInterval) are pending       *)
(* records that fire in any order: the delays are random (Math.random) and *)
(* the caller's timing is free.                                            *)
(***************************************************************************)
EXTENDS Integers, Sequences, FiniteSets, TLC

VARIABLES
    \* ---- SerialFactory and the module serial.ts ----
    mode,          \* SerialFactory.mode
    forcedMode,    \* SerialFactory.forcedMode
    instances,     \* the connections constructed so far, in order
    globalConnection,   \* serial.ts: the cached connection, 0 for null
    \* ---- which transport SerialFactory.create returned ----
    kind,          \* "emulated", "real", or "framing" for the bare read loop
    plan,          \* what the caller does: [opens, writes, payloads, pending]
    \* ---- framing (read loop of serial.ts / realSerial.ts) ----
    wire,          \* bytes the device sends, in order
    rd,            \* number of bytes of wire already handed out by reader.read()
    decoder,       \* TextDecoder state: bytes of an incomplete character
    buffer,        \* let buffer = '' : decoded text not yet framed; of a
                   \* RealSerialConnection, the buffer of the read loop that ended last
    lines,         \* lines handed to onLine, in order
    loopDone,      \* the read loop has left its while loop
    cuts,          \* chunks read so far
    \* ---- callback slots (both transports) ----
    dataCallback,
    errorCallback,
    disconnectCallback,
    \* ---- EmulatedSerialConnection ----
    isConnected,
    opening,       \* open() calls waiting in the connection delay
    \* ---- MockMacroPadDevice ----
    deviceType,
    responseCallback,   \* TRUE when start() has stored the callback
    heartbeatInterval,  \* TRUE when the handle is set
    intervals,          \* setInterval timers alive
    macroConfig,        \* the stored array
    timers,             \* pending setTimeout callbacks
    \* ---- RealSerialConnection and the Web Serial port under it ----
    serial,        \* 'serial' in navigator
    port,          \* this.port !== null
    portState,     \* the port's state: closed, opening, opened, closing
    reader,        \* this.reader !== null
    writer,        \* this.writer !== null
    rstate,        \* the readable stream: readable, closed, errored
    readLoopActive,
    awaits,        \* awaits that the browser has not settled yet
    micro,         \* settled awaits whose continuation has not run yet, in order
    reads,         \* chunks the port has delivered
    \* ---- history ----
    cycle,         \* open() calls resolved so far
    opened,        \* an open() has resolved and no close() has resolved since
    notified,      \* disconnect callback invocations in this cycle (saturates at 2)
    armed,         \* a disconnect callback was registered when the cycle's open() resolved
    track,         \* per accepted write, in order: [class, cycle, steady, got]
    lastSet,       \* macros of the set_config written last in this cycle
    lastEvent,     \* what the last step did
    \* ---- monitorState (store.ts) ----
    log,           \* LogLine[]
    txInput,
    maxLogLines,
    clock          \* new Date(): the number of the addLog call made last

fvars == <<wire, rd, decoder, buffer, lines, loopDone, cuts>>

cbvars == <<dataCallback, errorCallback, disconnectCallback>>

evars == <<isConnected, opening, deviceType, responseCallback, heartbeatInterval,
           intervals, macroConfig, timers>>

rvars == <<serial, port, portState, reader, writer, rstate, readLoopActive,
           awaits, micro, reads>>

hvars == <<cycle, opened, notified, armed, track, lastSet, lastEvent>>

svars == <<mode, forcedMode, instances, globalConnection>>

mvars == <<log, txInput, maxLogLines, clock>>

vars == <<svars, mvars, kind, plan, fvars, cbvars, evars, rvars, hvars>>

----------------------------------------------------------------------------
\* Bounds

MaxHandled == 2    \* lines the page handles
MaxInstances == 2  \* connections the factory constructs
MaxStream == 4     \* longest byte stream the device sends
MaxWrites == 2     \* write() calls accepted on one connection
MaxOpens == 2      \* open() calls on one connection
ProtocolOpens == 1 \* open() calls in a protocol session
SessionWrites == 1 \* write() calls accepted when the connection is reopened
MaxPending == 2    \* calls of the real connection in flight at once
MaxReads == 2      \* chunks a real port delivers

----------------------------------------------------------------------------
\* Bytes and characters

LF == 10
SP == 32
LetterA == 97
LeadC3 == 195          \* 0xC3, first byte of a two-byte UTF-8 sequence
ContA9 == 169          \* 0xA9, a continuation byte; C3 A9 is U+00E9
Replacement == 65533   \* U+FFFD

ByteAlphabet == {LF, SP, LetterA, LeadC3, ContA9}

WhiteSpace == {9, 10, 11, 12, 13, 32}

IsLead2(b) == b >= 194 /\ b <= 223
IsCont(b) == b >= 128 /\ b <= 191

\* new TextDecoder().decode(value, {stream: true}): the UTF-8 decoder keeps an
\* incomplete sequence between calls.  pend is <<>> or <<lead byte>>.
\* The result is <<text, pend'>>.
RECURSIVE Utf8Decode(_, _, _)
Utf8Decode(pend, bytes, out) ==
    IF bytes = <<>> THEN <<out, pend>>
    ELSE LET b == Head(bytes) IN
         IF pend = <<>>
         THEN IF b < 128 THEN Utf8Decode(<<>>, Tail(bytes), Append(out, b))
              ELSE IF IsLead2(b) THEN Utf8Decode(<<b>>, Tail(bytes), out)
              ELSE Utf8Decode(<<>>, Tail(bytes), Append(out, Replacement))
         ELSE IF IsCont(b)
              THEN Utf8Decode(<<>>, Tail(bytes),
                              Append(out, (pend[1] % 32) * 64 + (b % 64)))
              \* the lead byte is replaced, b is decoded again
              ELSE Utf8Decode(<<>>, bytes, Append(out, Replacement))

\* String.prototype.trim
RECURSIVE TrimLeft(_)
TrimLeft(s) ==
    IF s /= <<>> /\ Head(s) \in WhiteSpace THEN TrimLeft(Tail(s)) ELSE s

RECURSIVE TrimRight(_)
TrimRight(s) ==
    IF s /= <<>> /\ s[Len(s)] \in WhiteSpace
    THEN TrimRight(SubSeq(s, 1, Len(s) - 1)) ELSE s

Trim(s) == TrimRight(TrimLeft(s))

\* buffer.indexOf('\n'), 1-based; 0 when there is none
IndexOfLF(s) ==
    IF \E i \in 1..Len(s) : s[i] = LF
    THEN CHOOSE i \in 1..Len(s) : s[i] = LF /\ \A j \in 1..(i - 1) : s[j] /= LF
    ELSE 0

\* the framing loop without the test line.length > 0
RECURSIVE FrameLinesKeepEmpty(_, _, _)
FrameLinesKeepEmpty(buf, deliver, out) ==
    LET idx == IndexOfLF(buf) IN
    IF idx = 0 THEN <<buf, out>>
    ELSE LET line == Trim(SubSeq(buf, 1, idx - 1))
             rest == SubSeq(buf, idx + 1, Len(buf))
         IN FrameLinesKeepEmpty(rest, deliver,
                                IF deliver THEN Append(out, line) ELSE out)

\* while ((idx = buffer.indexOf('\n')) !== -1) { line = buffer.slice(0, idx).trim();
\*   buffer = buffer.slice(idx + 1); if (line.length > 0 && deliver) onLine(line) }
\* The result is <<buffer', emitted lines>>.
RECURSIVE FrameLines(_, _, _)
FrameLines(buf, deliver, out) ==
    LET idx == IndexOfLF(buf) IN
    IF idx = 0 THEN <<buf, out>>
    ELSE LET line == Trim(SubSeq(buf, 1, idx - 1))
             rest == SubSeq(buf, idx + 1, Len(buf))
         IN FrameLines(rest, deliver,
                       IF Len(line) > 0 /\ deliver THEN Append(out, line) ELSE out)

\* One pass of the loop body with decoder.decode(value): without {stream: true}
\* an incomplete character at the end of the chunk is replaced and forgotten
FrameChunkNoStream(dec, buf, chunk, deliver) ==
    LET d == Utf8Decode(<<>>, chunk, <<>>)
        text == IF d[2] = <<>> THEN d[1] ELSE Append(d[1], Replacement)
        f == FrameLines(buf \o text, deliver, <<>>)
    IN [decoder |-> <<>>, buffer |-> f[1], out |-> f[2]]

\* One pass of the loop body for one chunk: decode, append, frame.
\* The result is [decoder, buffer, out].
FrameChunk(dec, buf, chunk, deliver) ==
    LET d == Utf8Decode(dec, chunk, <<>>)
        f == FrameLines(buf \o d[1], deliver, <<>>)
    IN [decoder |-> d[2], buffer |-> f[1], out |-> f[2]]

----------------------------------------------------------------------------
\* JavaScript values.  Every value is a record tagged with its type, so that
\* values of different types can be compared.  A number n is kept as 2n
\* (halves), which makes 1.5 a value.

NumSlots == 16

JUndef == [t |-> "undefined"]
JNull == [t |-> "null"]
JNum(h) == [t |-> "number", halves |-> h]
JInt(n) == JNum(2 * n)
JStr(s) == [t |-> "string", s |-> s]
JArr(a) == [t |-> "array", a |-> a]
JObj(o) == [t |-> "object", o |-> o]
JBool(b) == [t |-> "boolean", b |-> b]

\* v[key]: undefined when the property is absent; reading a property of null
\* or undefined throws, which the callers test with CanRead first
CanRead(v) == v.t \notin {"null", "undefined"}

Get(v, key) ==
    IF v.t = "object" /\ key \in DOMAIN v.o THEN v.o[key] ELSE JUndef

\* ToBoolean
Truthy(v) ==
    CASE v.t \in {"undefined", "null"} -> FALSE
      [] v.t = "number" -> v.halves /= 0
      [] v.t = "string" -> v.s /= ""
      [] v.t = "boolean" -> v.b
      [] OTHER -> TRUE

IsInteger(v) == v.t = "number" /\ v.halves % 2 = 0

\* Number to string, as a template literal formats it
NumToString(v) ==
    IF v.halves % 2 = 0 THEN ToString(v.halves \div 2)
    ELSE IF v.halves > 0 THEN ToString(v.halves \div 2) \o ".5"
    ELSE "-" \o ToString((0 - v.halves) \div 2) \o ".5"

\* `${v}` for the values a description can hold
TemplateString(v) ==
    CASE v.t = "string" -> v.s
      [] v.t = "number" -> NumToString(v)
      [] v.t = "null" -> "null"
      [] OTHER -> "undefined"

\* JSON.stringify, up to white space: the text is represented by the value it
\* denotes.  Properties whose value is undefined are left out and an undefined
\* array element becomes null.
RECURSIVE JSONstringify(_)
JSONstringify(v) ==
    CASE v.t = "object" ->
            JObj([k \in {f \in DOMAIN v.o : v.o[f].t /= "undefined"} |->
                     JSONstringify(v.o[k])])
      [] v.t = "array" ->
            JArr([i \in 1..Len(v.a) |->
                     IF v.a[i].t = "undefined" THEN JNull ELSE JSONstringify(v.a[i])])
      [] OTHER -> v

\* A line as the data callback receives it: plain text, or the text of a JSON value
TextLine(s) == [t |-> "text", s |-> s]
JsonLine(v) == [t |-> "json", v |-> JSONstringify(v)]

----------------------------------------------------------------------------
\* Payloads handed to write().  A payload is a string: either the text of a
\* JSON value (JSON.parse returns the value) or some other text (JSON.parse
\* throws).  Other text is kept as its characters.

\* one MacroKey; n selects the contents, slot is the position in the array
MacroKey(n, slot, described) ==
    IF described
    THEN JObj([key_code |-> JInt(n), modifier |-> JInt(0), consumer_code |-> JInt(0),
               color |-> JInt(255), description |-> JStr("M" \o ToString(n) \o "-" \o ToString(slot))])
    ELSE JObj([key_code |-> JInt(n), modifier |-> JInt(0), consumer_code |-> JInt(0),
               color |-> JInt(255)])

MacroArray(len, n, described) == [i \in 1..len |-> MacroKey(n, i - 1, described)]

ValidMacroArrays == {MacroArray(NumSlots, 4, TRUE), MacroArray(NumSlots, 5, FALSE)}

MacrosFields ==
    {JArr(a) : a \in ValidMacroArrays}
    \cup {JArr(MacroArray(NumSlots - 1, 6, TRUE)), JArr(MacroArray(NumSlots + 1, 6, TRUE)),
          JObj([length |-> JInt(NumSlots)])}

IndexFields == {JInt(-1), JInt(0), JInt(NumSlots - 1), JInt(NumSlots), JNum(3), JStr("3")}

JsonCommands ==
    {JObj([cmd |-> JStr("get_config")])}
    \cup {JObj([cmd |-> JStr("set_config"), macros |-> m]) : m \in MacrosFields}
    \cup {JObj([cmd |-> JStr("set_config")])}
    \cup {JObj([cmd |-> JStr("test_macro"), index |-> i]) : i \in IndexFields}
    \cup {JObj([cmd |-> JStr("test_macro")])}
    \cup {JObj([cmd |-> JStr("reboot")]), JObj([index |-> JInt(1)]), JInt(7), JNull}

TextCommands ==
    {<<"h", "e", "l", "p">>, <<" ", "H", "e", "L", "P", " ">>,
     <<"h", "e", "l", "p", "!">>}

Payloads ==
    {[form |-> "json", value |-> v] : v \in JsonCommands}
    \cup {[form |-> "text", chars |-> c] : c \in TextCommands}

\* the payloads of an ordinary session
CorePayloads ==
    {[form |-> "json", value |-> JObj([cmd |-> JStr("get_config")])],
     [form |-> "json", value |-> JObj([cmd |-> JStr("set_config"),
                                       macros |-> JArr(MacroArray(NumSlots, 4, TRUE))])],
     [form |-> "json", value |-> JObj([cmd |-> JStr("test_macro"),
                                       index |-> JInt(NumSlots - 1)])],
     [form |-> "text", chars |-> <<"h", "e", "l", "p">>]}

\* String.prototype.toLowerCase on the characters used here
LowerOf(c) ==
    CASE c = "H" -> "h" [] c = "E" -> "e" [] c = "L" -> "l" [] c = "P" -> "p"
      [] OTHER -> c

ToLowerCase(s) == [i \in 1..Len(s) |-> LowerOf(s[i])]

\* the white space among the characters used here
BlankChars == {" ", "\n"}

RECURSIVE TrimChars(_)
TrimChars(s) ==
    IF s /= <<>> /\ Head(s) \in BlankChars THEN TrimChars(Tail(s))
    ELSE IF s /= <<>> /\ s[Len(s)] \in BlankChars THEN TrimChars(SubSeq(s, 1, Len(s) - 1))
    ELSE s

----------------------------------------------------------------------------
\* MockMacroPadDevice

Undefined == "undefined"     \* an empty callback slot
Null == "null"               \* null

DeviceTypes == {"stable", "unstable", "slow"}

\* Math.floor(Math.random() * 0xffffff): one draw stands for all
ColorDraw == 11259375

\* initializeMacroConfig with a loop that stops one slot early
initializeMacroConfigFifteen(color) ==
    [i \in 1..(NumSlots - 1) |->
        JObj([key_code |-> JInt(0), modifier |-> JInt(0), consumer_code |-> JInt(0),
              color |-> JInt(color), description |-> JStr("Key " \o ToString(i - 1))])]

\* initializeMacroConfig
initializeMacroConfig(color) ==
    [i \in 1..NumSlots |->
        JObj([key_code |-> JInt(0), modifier |-> JInt(0), consumer_code |-> JInt(0),
              color |-> JInt(color), description |-> JStr("Key " \o ToString(i - 1))])]

StatusOk(cmd) == JObj([status |-> JStr("ok"), cmd |-> JStr(cmd)])
StatusError(reason) == JObj([status |-> JStr("error"), reason |-> JStr(reason)])

\* The result of processCommand is
\*   [threw, response, config, confirm]
\* threw: reading command.cmd failed; config: macroConfig afterwards;
\* confirm: the 100 ms confirmation timer was set.
Answer(config, response, confirm) ==
    [threw |-> FALSE, response |-> response, config |-> config, confirm |-> confirm]

\* case 'get_config'
getConfig(config, command) ==
    Answer(config, JObj([cmd |-> JStr("config"), macros |-> JArr(config)]), FALSE)

\* case 'set_config', accepting an array that is not longer than 16
setConfigAtMost(config, command) ==
    LET macros == Get(command, "macros") IN
    IF Truthy(macros) /\ macros.t = "array" /\ Len(macros.a) <= NumSlots
    THEN Answer(macros.a, StatusOk("set_config"), FALSE)
    ELSE Answer(config, StatusError("missing macros"), FALSE)

\* case 'set_config'
setConfig(config, command) ==
    LET macros == Get(command, "macros") IN
    IF Truthy(macros) /\ macros.t = "array" /\ Len(macros.a) = NumSlots
    THEN Answer(macros.a, StatusOk("set_config"), FALSE)
    ELSE Answer(config, StatusError("missing macros"), FALSE)

\* case 'test_macro', without the confirmation timer
testMacroSilent(config, command) ==
    LET index == Get(command, "index") IN
    IF index.t = "number" /\ index.halves >= 0 /\ index.halves < 2 * NumSlots
    THEN Answer(config, StatusOk("test_macro"), FALSE)
    ELSE Answer(config, StatusError("bad index"), FALSE)

\* case 'test_macro'
testMacro(config, command) ==
    LET index == Get(command, "index") IN
    IF index.t = "number" /\ index.halves >= 0 /\ index.halves < 2 * NumSlots
    THEN Answer(config, StatusOk("test_macro"), TRUE)
    ELSE Answer(config, StatusError("bad index"), FALSE)

\* default, with the stored array emptied
unknownCommandClears(config, command) ==
    Answer(<<>>, StatusError("unknown_cmd"), FALSE)

\* default
unknownCommand(config, command) ==
    Answer(config, StatusError("unknown_cmd"), FALSE)

\* processCommand: switch (command.cmd)
processCommand(config, command) ==
    IF ~CanRead(command)
    THEN [threw |-> TRUE, response |-> JUndef, config |-> config, confirm |-> FALSE]
    ELSE LET cmd == Get(command, "cmd") IN
         CASE cmd = JStr("get_config") -> getConfig(config, command)
           [] cmd = JStr("set_config") -> setConfig(config, command)
           [] cmd = JStr("test_macro") -> testMacro(config, command)
           [] OTHER -> unknownCommand(config, command)

\* this.macroConfig[command.index]: an element for an integer index inside the
\* array, undefined otherwise
ElementAt(config, index) ==
    IF IsInteger(index) /\ index.halves >= 0 /\ index.halves < 2 * Len(config)
    THEN config[1 + index.halves \div 2]
    ELSE JUndef

\* `Macro ${command.index} executed: ${this.macroConfig[command.index].description}`
ExecutedLine(config, index) ==
    TextLine("Macro " \o NumToString(index) \o " executed: "
             \o TemplateString(Get(ElementAt(config, index), "description")))

HelpLine == TextLine("Available commands: get_config, set_config, test_macro")
OkLine == TextLine("OK")
ReadyLine == TextLine("Device ready")
NoiseLine == TextLine("STATUS: Random noise detected")

\* the reply of handleTextCommand, comparing without trim()
TextReplyUntrimmed(chars) ==
    IF ToLowerCase(chars) = <<"h", "e", "l", "p">> THEN HelpLine ELSE OkLine

\* the reply of handleTextCommand
TextReply(chars) ==
    IF ToLowerCase(TrimChars(chars)) = <<"h", "e", "l", "p">> THEN HelpLine ELSE OkLine

\* the device's callback alone decides: a line is handed on whether or not a
\* data callback is registered
ReachesUnregistered == responseCallback

\* sendResponse through the callback open() gave to start(): the line reaches
\* the data callback when the device is started and a callback is registered
Reaches == responseCallback /\ dataCallback /= Undefined

----------------------------------------------------------------------------
\* Callback slots: onData, onError, onDisconnect (both transports)

\* the callbacks the caller registers: with plan.handlers = 2 a second one of
\* each kind, registered in place of the first
Handlers(first, later, slot) ==
    IF plan.handlers = 2 /\ slot = first THEN {later} ELSE {first}

DataHandlers == Handlers("onLine", "onLineLater", dataCallback)
ErrorHandlers == Handlers("onFail", "onFailLater", errorCallback)
DisconnectHandlers == Handlers("onGone", "onGoneLater", disconnectCallback)

IsConnection == kind \in {"emulated", "real"}

\* onData(callback) that keeps a callback already registered
onDataKeepsFirst ==
    /\ IsConnection
    /\ \E cb \in DataHandlers :
          /\ cb /= dataCallback
          /\ dataCallback' = IF dataCallback = Undefined THEN cb ELSE dataCallback
          /\ lastEvent' = [op |-> "onData", cb |-> cb]
    /\ UNCHANGED <<svars, mvars, kind, plan, fvars, rvars, errorCallback, disconnectCallback, evars,
                   cycle, opened, notified, armed, track, lastSet>>

onData ==
    /\ IsConnection
    /\ \E cb \in DataHandlers :
          /\ cb /= dataCallback
          /\ dataCallback' = cb
          /\ lastEvent' = [op |-> "onData", cb |-> cb]
    /\ UNCHANGED <<svars, mvars, kind, plan, fvars, rvars, errorCallback, disconnectCallback, evars,
                   cycle, opened, notified, armed, track, lastSet>>

onError ==
    /\ IsConnection
    /\ \E cb \in ErrorHandlers :
          /\ cb /= errorCallback
          /\ errorCallback' = cb
          /\ lastEvent' = [op |-> "onError", cb |-> cb]
    /\ UNCHANGED <<svars, mvars, kind, plan, fvars, rvars, dataCallback, disconnectCallback, evars,
                   cycle, opened, notified, armed, track, lastSet>>

onDisconnect ==
    /\ IsConnection
    /\ \E cb \in DisconnectHandlers :
          /\ cb /= disconnectCallback
          /\ disconnectCallback' = cb
          /\ lastEvent' = [op |-> "onDisconnect", cb |-> cb]
    /\ UNCHANGED <<svars, mvars, kind, plan, fvars, rvars, dataCallback, errorCallback, evars,
                   cycle, opened, notified, armed, track, lastSet>>

----------------------------------------------------------------------------
\* EmulatedSerialConnection

Min(a, b) == IF a < b THEN a ELSE b

\* the history kept for the command written as number id
NoteLine(id, what, delivered) ==
    IF delivered
    THEN [track EXCEPT ![id].got = Append(@, what)]
    ELSE track

\* open(): up to the await of the connection delay
EmulatedOpen ==
    /\ kind = "emulated"
    /\ cycle + opening < plan.opens
    /\ opening' = opening + 1
    /\ lastEvent' = [op |-> "open"]
    /\ UNCHANGED <<svars, mvars, kind, plan, fvars, rvars, cbvars, isConnected, deviceType, responseCallback,
                   heartbeatInterval, intervals, macroConfig, timers,
                   cycle, opened, notified, armed, track, lastSet>>

\* open() that builds a new MockMacroPadDevice: the stored configuration starts
\* over
EmulatedOpenResumeNewDevice ==
    /\ kind = "emulated"
    /\ opening > 0
    /\ opening' = opening - 1
    /\ isConnected' = TRUE
    /\ responseCallback' = TRUE
    /\ IF deviceType = "unstable"
       THEN /\ heartbeatInterval' = TRUE
            /\ intervals' = intervals + 1
       ELSE UNCHANGED <<heartbeatInterval, intervals>>
    /\ timers' = timers \cup {[k |-> "ready", cycle |-> cycle + 1]}
    /\ cycle' = cycle + 1
    /\ opened' = TRUE
    /\ notified' = 0
    /\ armed' = (disconnectCallback /= Undefined)
    /\ lastSet' = JUndef
    /\ lastEvent' = [op |-> "opened", wasOpen |-> isConnected]
    /\ macroConfig' = initializeMacroConfig(ColorDraw)
    /\ UNCHANGED <<svars, mvars, kind, plan, fvars, rvars, cbvars, deviceType, track>>

\* MockMacroPadDevice.start: the callback is stored; an unstable device sets
\* its heartbeat interval (a handle still set is overwritten, not cleared)
\* open(): after the delay.  isConnected, start(), the 50 ms 'Device ready' timer.
EmulatedOpenResume ==
    /\ kind = "emulated"
    /\ opening > 0
    /\ opening' = opening - 1
    /\ isConnected' = TRUE
    /\ responseCallback' = TRUE
    /\ IF deviceType = "unstable"
       THEN /\ heartbeatInterval' = TRUE
            /\ intervals' = intervals + 1
       ELSE UNCHANGED <<heartbeatInterval, intervals>>
    /\ timers' = timers \cup {[k |-> "ready", cycle |-> cycle + 1]}
    /\ cycle' = cycle + 1
    /\ opened' = TRUE
    /\ notified' = 0
    /\ armed' = (disconnectCallback /= Undefined)
    /\ lastSet' = JUndef
    /\ lastEvent' = [op |-> "opened", wasOpen |-> isConnected]
    /\ UNCHANGED <<svars, mvars, kind, plan, fvars, rvars, cbvars, deviceType, macroConfig, track>>

\* close(): isConnected = false, mockDevice.stop(), the disconnect callback.
\* stop() clears the interval whose handle is set and drops the callback.
CloseBody(via) ==
    /\ kind = "emulated"
    /\ isConnected' = FALSE
    /\ IF heartbeatInterval
       THEN /\ heartbeatInterval' = FALSE
            /\ intervals' = intervals - 1
       ELSE UNCHANGED <<heartbeatInterval, intervals>>
    /\ responseCallback' = FALSE
    /\ notified' = IF disconnectCallback /= Undefined THEN Min(notified + 1, 2)
                   ELSE notified
    /\ opened' = FALSE
    /\ UNCHANGED armed
    /\ track' = [i \in 1..Len(track) |-> [track[i] EXCEPT !.steady = FALSE]]
    /\ lastSet' = JUndef
    /\ lastEvent' = [op |-> "close", via |-> via, wasOpen |-> isConnected,
                     notified |-> disconnectCallback /= Undefined,
                     disconnectTo |-> disconnectCallback]
    /\ UNCHANGED <<svars, mvars, kind, plan, fvars, rvars, cbvars, opening, deviceType, macroConfig, timers,
                   cycle>>

EmulatedClose == CloseBody("close")

\* triggerDisconnect(): this.close()
triggerDisconnect == CloseBody("triggerDisconnect")

\* the class of a payload, kept in the history
IsValidTestMacro(v) ==
    /\ Get(v, "cmd") = JStr("test_macro")
    /\ IsInteger(Get(v, "index"))
    /\ Get(v, "index").halves >= 0
    /\ Get(v, "index").halves < 2 * NumSlots

IsValidSetConfig(v) ==
    /\ Get(v, "cmd") = JStr("set_config")
    /\ Get(v, "macros").t = "array"
    /\ Len(Get(v, "macros").a) = NumSlots

ClassOf(p) ==
    IF p.form = "text" THEN "text"
    ELSE IF p.value.t = "null" THEN "null"
    ELSE IF IsValidTestMacro(p.value) THEN "test"
    ELSE "json"

\* the payloads the caller draws from
Menu ==
    CASE plan.payloads = "all" -> Payloads
      [] plan.payloads \in {"core", "session"} -> CorePayloads
      [] OTHER -> {}

\* the payload followed by "\n".  JSON.parse skips white space after the
\* value, so the text of a JSON value stays one; other text gets the character.
WithLF(p) ==
    IF p.form = "json" THEN [form |-> "json", value |-> p.value, lf |-> TRUE]
    ELSE [form |-> "text", chars |-> Append(p.chars, "\n")]

\* the calls the caller draws from: writeLine(line), and in an ordinary
\* session also write(data), with and without a line terminator
Calls ==
    {[api |-> "writeLine", arg |-> p] : p \in Menu}
    \cup (IF plan.payloads = "core"
          THEN {[api |-> "write", arg |-> p] : p \in Menu}
               \cup {[api |-> "write", arg |-> WithLF(p)] : p \in Menu}
          ELSE {})

\* writeLine(line): what it passes to write()
EmulatedWriteLineData(line) == line

\* write(data) on an open connection: JSON.parse, then handleCommand or
\* handleTextCommand, each of which only sets the response timer
EmulatedWrite ==
    /\ kind = "emulated"
    /\ isConnected
    /\ Len(track) < plan.writes
    /\ \E call \in Calls :
          LET id == Len(track) + 1
              p == IF call.api = "writeLine" THEN EmulatedWriteLineData(call.arg)
                   ELSE call.arg
          IN
          /\ timers' = timers \cup
                {IF p.form = "json"
                 THEN [k |-> "command", id |-> id, command |-> p.value, expect |-> lastSet]
                 ELSE [k |-> "text", id |-> id, chars |-> p.chars]}
          /\ track' = Append(track, [class |-> ClassOf(p), cycle |-> cycle,
                                     steady |-> dataCallback /= Undefined,
                                     got |-> <<>>])
          /\ lastSet' = IF p.form = "json" /\ Get(p.value, "cmd") = JStr("set_config")
                        THEN IF IsValidSetConfig(p.value) THEN Get(p.value, "macros")
                             ELSE JUndef
                        ELSE lastSet
          /\ lastEvent' = [op |-> "write", id |-> id, api |-> call.api, arg |-> call.arg]
    /\ UNCHANGED <<svars, mvars, kind, plan, fvars, rvars, cbvars, isConnected, opening, deviceType,
                   responseCallback, heartbeatInterval, intervals, macroConfig,
                   cycle, opened, notified, armed>>

\* write(data) on a connection that is not open: throws 'Emulated port not open'
EmulatedWriteNotOpen ==
    /\ kind = "emulated"
    /\ ~isConnected
    /\ lastEvent.op /= "writeFailed"
    /\ lastEvent' = [op |-> "writeFailed"]
    /\ UNCHANGED <<svars, mvars, kind, plan, fvars, rvars, cbvars, evars, cycle, opened, notified, armed, track,
                   lastSet>>

\* sendErrorResponse(cmd, reason): the object it sends
sendErrorResponse(cmd, reason) ==
    JObj([status |-> JStr("error"), cmd |-> cmd, reason |-> JStr(reason)])

\* the try and catch blocks of the timer of handleCommand: the line sent, or
\* escaped when the catch block throws while reading command.cmd
HandlerLine(r, command) ==
    IF ~r.threw THEN [line |-> JsonLine(r.response), escaped |-> FALSE]
    ELSE IF CanRead(command)
    THEN [line |-> JsonLine(sendErrorResponse(Get(command, "cmd"), "invalid_command")),
          escaped |-> FALSE]
    ELSE [line |-> JsonLine(JUndef), escaped |-> TRUE]

\* the timer of handleCommand: processCommand, sendResponse(JSON.stringify(..)).
\* When processCommand throws, the catch block reads command.cmd again, which
\* throws again: nothing is sent.
CommandTimer ==
    /\ kind = "emulated"
    /\ \E tm \in timers :
          /\ tm.k = "command"
          /\ LET r == processCommand(macroConfig, tm.command)
                 sent == HandlerLine(r, tm.command)
                 delivered == ~sent.escaped /\ Reaches
             IN /\ macroConfig' = r.config
                /\ timers' = (timers \ {tm}) \cup
                      (IF r.confirm
                       THEN {[k |-> "executed", id |-> tm.id,
                              index |-> Get(tm.command, "index")]}
                       ELSE {})
                /\ track' = NoteLine(tm.id, "response", delivered)
                /\ lastEvent' = [op |-> "command", id |-> tm.id, command |-> tm.command,
                                 expect |-> tm.expect, threw |-> r.threw,
                                 changed |-> r.config /= macroConfig,
                                 line |-> sent.line, escaped |-> sent.escaped,
                                 delivered |-> delivered, to |-> dataCallback]
    /\ UNCHANGED <<svars, mvars, kind, plan, fvars, rvars, cbvars, isConnected, opening, deviceType,
                   responseCallback, heartbeatInterval, intervals,
                   cycle, opened, notified, armed, lastSet>>

\* the 100 ms timer of test_macro: reading .description of undefined throws
ExecutedTimer ==
    /\ kind = "emulated"
    /\ \E tm \in timers :
          /\ tm.k = "executed"
          /\ LET threw == ~CanRead(ElementAt(macroConfig, tm.index))
                 delivered == ~threw /\ Reaches
             IN /\ timers' = timers \ {tm}
                /\ track' = NoteLine(tm.id, "executed", delivered)
                /\ lastEvent' = [op |-> "executed", id |-> tm.id, index |-> tm.index,
                                 threw |-> threw,
                                 line |-> IF threw THEN TextLine("")
                                          ELSE ExecutedLine(macroConfig, tm.index),
                                 delivered |-> delivered, to |-> dataCallback]
    /\ UNCHANGED <<svars, mvars, kind, plan, fvars, rvars, cbvars, isConnected, opening, deviceType,
                   responseCallback, heartbeatInterval, intervals, macroConfig,
                   cycle, opened, notified, armed, lastSet>>

\* the timer of handleTextCommand
TextTimer ==
    /\ kind = "emulated"
    /\ \E tm \in timers :
          /\ tm.k = "text"
          /\ timers' = timers \ {tm}
          /\ track' = NoteLine(tm.id, "response", Reaches)
          /\ lastEvent' = [op |-> "text", id |-> tm.id, chars |-> tm.chars,
                           line |-> TextReply(tm.chars),
                           delivered |-> Reaches, to |-> dataCallback]
    /\ UNCHANGED <<svars, mvars, kind, plan, fvars, rvars, cbvars, isConnected, opening, deviceType,
                   responseCallback, heartbeatInterval, intervals, macroConfig,
                   cycle, opened, notified, armed, lastSet>>

\* a 50 ms timer of open() that stays set after it has fired
ReadyTimerRepeats ==
    /\ kind = "emulated"
    /\ \E tm \in timers :
          /\ tm.k = "ready"
          /\ lastEvent' = [op |-> "ready", cycle |-> tm.cycle, line |-> ReadyLine,
                           delivered |-> dataCallback /= Undefined, to |-> dataCallback]
    /\ lastEvent' /= lastEvent
    /\ UNCHANGED <<svars, mvars, kind, plan, fvars, rvars, cbvars, isConnected, opening, deviceType,
                   responseCallback, heartbeatInterval, intervals, macroConfig, timers,
                   cycle, opened, notified, armed, track, lastSet>>

\* the 50 ms timer of open(): the line goes to this.dataCallback directly
ReadyTimer ==
    /\ kind = "emulated"
    /\ \E tm \in timers :
          /\ tm.k = "ready"
          /\ timers' = timers \ {tm}
          /\ lastEvent' = [op |-> "ready", cycle |-> tm.cycle, line |-> ReadyLine,
                           delivered |-> dataCallback /= Undefined, to |-> dataCallback]
    /\ UNCHANGED <<svars, mvars, kind, plan, fvars, rvars, cbvars, isConnected, opening, deviceType,
                   responseCallback, heartbeatInterval, intervals, macroConfig,
                   cycle, opened, notified, armed, track, lastSet>>

\* a tick of the heartbeat interval in which Math.random() < 0.1
HeartbeatNoise ==
    /\ kind = "emulated"
    /\ intervals > 0
    /\ lastEvent' = [op |-> "noise", line |-> NoiseLine,
                     delivered |-> Reaches, to |-> dataCallback]
    /\ lastEvent' /= lastEvent
    /\ UNCHANGED <<svars, mvars, kind, plan, fvars, rvars, cbvars, evars, cycle, opened, notified, armed, track,
                   lastSet>>

\* updateMacroConfig(index, config) with config = {description: 'Patched'}
UpdateIndexes == {-1, 3, NumSlots}

updateMacroConfig ==
    /\ kind = "emulated"
    /\ \E index \in UpdateIndexes :
          /\ macroConfig' =
                IF index >= 0 /\ index < 16
                THEN [macroConfig EXCEPT ![index + 1] =
                        JObj([f \in DOMAIN @.o \cup {"description"} |->
                                 IF f = "description" THEN JStr("Patched") ELSE @.o[f]])]
                ELSE macroConfig
          /\ lastEvent' = [op |-> "update", index |-> index]
    /\ lastEvent' /= lastEvent
    \* history: what a get_config is expected to report is no longer known
    /\ lastSet' = JUndef
    /\ timers' = {IF tm.k = "command" THEN [tm EXCEPT !.expect = JUndef] ELSE tm :
                     tm \in timers}
    /\ UNCHANGED <<svars, mvars, kind, plan, fvars, rvars, cbvars, isConnected, opening, deviceType,
                   responseCallback, heartbeatInterval, intervals,
                   cycle, opened, notified, armed, track>>

\* the connection through its whole interface
EmulatedNext ==
    \/ onData \/ onError \/ onDisconnect
    \/ EmulatedOpen \/ EmulatedOpenResume
    \/ EmulatedClose \/ triggerDisconnect
    \/ EmulatedWrite \/ EmulatedWriteNotOpen
    \/ CommandTimer \/ ExecutedTimer \/ TextTimer \/ ReadyTimer
    \/ HeartbeatNoise

\* the mock device's protocol: commands, their timers, the stored configuration
ProtocolNext ==
    \/ onData
    \/ EmulatedOpen \/ EmulatedOpenResume
    \/ EmulatedClose
    \/ EmulatedWrite
    \/ CommandTimer \/ ExecutedTimer \/ TextTimer \/ ReadyTimer
    \/ updateMacroConfig

----------------------------------------------------------------------------
\* RealSerialConnection.
\*
\* An async method runs up to an await and continues when the awaited promise
\* has settled.  An await the browser settles later (I/O) is kept in awaits;
\* the step that settles it runs the continuation.  A promise that is settled
\* by the program's own call (a read ended by reader.cancel(), a call the port
\* refuses in its current state) has its continuation queued in micro: queued
\* continuations run before the browser delivers anything else, but the code
\* that made the call may still call other methods first.
\*
\* The operators below are functions from the connection's state (a record of
\* the variables) to its next state.

RealState ==
    [port |-> port, portState |-> portState, reader |-> reader, writer |-> writer,
     rstate |-> rstate, readLoopActive |-> readLoopActive, awaits |-> awaits,
     micro |-> micro, reads |-> reads, cycle |-> cycle, opened |-> opened,
     notified |-> notified, armed |-> armed, left |-> buffer, ev |-> lastEvent]

Apply(s) ==
    /\ port' = s.port
    /\ portState' = s.portState
    /\ reader' = s.reader
    /\ writer' = s.writer
    /\ rstate' = s.rstate
    /\ readLoopActive' = s.readLoopActive
    /\ awaits' = s.awaits
    /\ micro' = s.micro
    /\ reads' = s.reads
    /\ cycle' = s.cycle
    /\ opened' = s.opened
    /\ notified' = s.notified
    /\ armed' = s.armed
    /\ lastEvent' = s.ev
    /\ buffer' = s.left
    /\ UNCHANGED <<svars, mvars, kind, plan, wire, rd, decoder, lines, loopDone, cuts,
                   cbvars, evars, serial, track, lastSet>>

\* this.port.open(options): refused at once unless the port is closed
PortOpenCall(s, id) ==
    IF s.portState = "closed"
    THEN [s EXCEPT !.portState = "opening",
                   !.awaits = @ \cup {[id |-> id, fn |-> "open", at |-> "port.open"]},
                   !.ev = [op |-> "open"]]
    ELSE [s EXCEPT !.micro = Append(@, [id |-> id, fn |-> "open", at |-> "port.open",
                                        result |-> "refused"]),
                   !.ev = [op |-> "open"]]

\* open() rejecting after having started the read loop
OpenRejectedLoopStarted(s, id) ==
    [s EXCEPT !.readLoopActive = TRUE, !.ev = [op |-> "openRejected", id |-> id]]

\* open() throws 'Failed to open serial port' (or 'not supported')
OpenRejected(s, id) == [s EXCEPT !.ev = [op |-> "openRejected", id |-> id]]

\* startReadLoop with a buffer that outlives the call: the loop continues the
\* text the loop before it has left
startReadLoopKeepsBuffer(s, id) ==
    IF ~s.reader \/ s.readLoopActive THEN s
    ELSE [s EXCEPT !.readLoopActive = TRUE,
                   !.awaits = @ \cup {[id |-> id, fn |-> "loop", at |-> "read",
                                       buffer |-> s.left, decoder |-> <<>>]}]

\* startReadLoop up to its first await: a second start is ignored.  decoder
\* and buffer are locals of the call.
startReadLoop(s, id) ==
    IF ~s.reader \/ s.readLoopActive THEN s
    ELSE [s EXCEPT !.readLoopActive = TRUE,
                   !.awaits = @ \cup {[id |-> id, fn |-> "loop", at |-> "read",
                                       buffer |-> <<>>, decoder |-> <<>>]}]

\* open() after port.open() has succeeded: getReader, getWriter, startReadLoop.
\* this.port.readable throws when close() has cleared this.port meanwhile.
OpenTail(s, id, hasReadable, hasWritable) ==
    IF ~s.port THEN OpenRejected(s, id)
    ELSE LET s1 == [s EXCEPT !.reader = hasReadable, !.writer = hasWritable,
                             !.rstate = "readable"]
             s2 == startReadLoop(s1, id)
         IN [s2 EXCEPT !.cycle = @ + 1, !.opened = TRUE, !.notified = 0,
                       !.armed = (disconnectCallback /= Undefined),
                       !.ev = [op |-> "openResolved", id |-> id,
                               loop |-> s2.readLoopActive /\ ~s.readLoopActive]]

\* close() has returned
CloseResolved(s, id, failed) ==
    [s EXCEPT !.opened = FALSE,
              !.ev = [op |-> "closeResolved", id |-> id, failed |-> failed]]

\* close(): if (this.port) await this.port.close()
ClosePortStage(s, id) ==
    IF ~s.port THEN CloseResolved(s, id, FALSE)
    ELSE IF s.portState = "opened"
    THEN [s EXCEPT !.portState = "closing",
                   !.awaits = @ \cup {[id |-> id, fn |-> "close", at |-> "port.close"]},
                   !.ev = [op |-> "close"]]
    ELSE [s EXCEPT !.micro = Append(@, [id |-> id, fn |-> "close", at |-> "port.close",
                                        result |-> "refused"]),
                   !.ev = [op |-> "close"]]

\* close(): if (this.writer) await this.writer.close()
CloseWriterStage(s, id) ==
    IF ~s.writer THEN ClosePortStage(s, id)
    ELSE [s EXCEPT !.awaits = @ \cup {[id |-> id, fn |-> "close", at |-> "writer.close"]},
                   !.ev = [op |-> "close"]]

\* the reads that a cancel or an end of the stream wakes, as continuations
PendingReads(s) == {a \in s.awaits : a.fn = "loop"}

RECURSIVE Woken(_, _)
Woken(as, result) ==
    IF as = {} THEN <<>>
    ELSE LET a == CHOOSE x \in as : \A y \in as : x.id <= y.id
         IN <<[id |-> a.id, fn |-> "loop", at |-> "read", result |-> result,
               buffer |-> a.buffer, decoder |-> a.decoder]>>
            \o Woken(as \ {a}, result)

\* close() that does not cancel the reader
CloseReaderStageSkipped(s, id) == CloseWriterStage(s, id)

\* close() with a cancel that leaves the pending read waiting
CloseReaderStageNoWake(s, id) ==
    IF ~s.reader THEN CloseWriterStage(s, id)
    ELSE IF s.rstate = "readable"
    THEN [s EXCEPT !.rstate = "closed",
                   !.awaits = @ \cup {[id |-> id, fn |-> "close", at |-> "cancel"]},
                   !.ev = [op |-> "close"]]
    ELSE [s EXCEPT !.micro = Append(@, [id |-> id, fn |-> "close", at |-> "cancel",
                                        result |-> IF s.rstate = "closed" THEN "ok"
                                                   ELSE "failed"]),
                   !.ev = [op |-> "close"]]

\* close(): if (this.reader) await this.reader.cancel().  Cancelling a readable
\* stream closes it, which ends the pending read with done; cancelling a closed
\* stream resolves at once, an errored stream rejects at once.
CloseReaderStage(s, id) ==
    IF ~s.reader THEN CloseWriterStage(s, id)
    ELSE IF s.rstate = "readable"
    THEN [s EXCEPT !.rstate = "closed",
                   !.micro = @ \o Woken(PendingReads(s), "done"),
                   !.awaits = (@ \ PendingReads(s))
                              \cup {[id |-> id, fn |-> "close", at |-> "cancel"]},
                   !.ev = [op |-> "close"]]
    ELSE [s EXCEPT !.micro = Append(@, [id |-> id, fn |-> "close", at |-> "cancel",
                                        result |-> IF s.rstate = "closed" THEN "ok"
                                                   ELSE "failed"]),
                   !.ev = [op |-> "close"]]

\* the callbacks the end of the read loop invokes, in order, with the finally
\* block running ahead of the catch block
LoopEndCallsFinallyFirst(why) ==
    (IF disconnectCallback /= Undefined THEN <<"disconnect">> ELSE <<>>)
    \o (IF why = "error" /\ errorCallback /= Undefined THEN <<"error">> ELSE <<>>)

\* the callbacks the end of the read loop invokes, in order: the catch block
\* (a read has thrown), then the finally block
LoopEndCalls(why) ==
    (IF why = "error" /\ errorCallback /= Undefined THEN <<"error">> ELSE <<>>)
    \o (IF disconnectCallback /= Undefined THEN <<"disconnect">> ELSE <<>>)

\* the finally block of startReadLoop without this.readLoopActive = false
LoopFinallyKeepsFlag(s, id, why, out, left) ==
    [s EXCEPT !.left = left,
              !.notified = IF disconnectCallback /= Undefined THEN Min(@ + 1, 2) ELSE @,
              !.ev = [op |-> "loopEnded", id |-> id, why |-> why,
                      error |-> why = "error" /\ errorCallback /= Undefined,
                      errorTo |-> errorCallback,
                      notified |-> disconnectCallback /= Undefined,
                      disconnectTo |-> disconnectCallback,
                      calls |-> LoopEndCalls(why),
                      lines |-> out, to |-> dataCallback, left |-> left]]

\* the end of startReadLoop: the catch and finally blocks.  out are the lines
\* the last turn of the loop has handed over, left is the text still in buffer,
\* which goes away with the call
LoopFinally(s, id, why, out, left) ==
    [s EXCEPT !.readLoopActive = FALSE,
              !.left = left,
              !.notified = IF disconnectCallback /= Undefined THEN Min(@ + 1, 2) ELSE @,
              !.ev = [op |-> "loopEnded", id |-> id, why |-> why,
                      error |-> why = "error" /\ errorCallback /= Undefined,
                      errorTo |-> errorCallback,
                      notified |-> disconnectCallback /= Undefined,
                      disconnectTo |-> disconnectCallback,
                      calls |-> LoopEndCalls(why),
                      lines |-> out, to |-> dataCallback, left |-> left]]

\* one turn of the while loop with a chunk: the chunk is framed, then the loop
\* condition decides between the next await and the end of the loop
LoopChunk(s, c) ==
    LET r == FrameChunk(c.decoder, c.buffer, c.chunk, dataCallback /= Undefined)
    IN IF s.readLoopActive /\ s.reader
       THEN [s EXCEPT !.awaits = @ \cup {[id |-> c.id, fn |-> "loop", at |-> "read",
                                          buffer |-> r.buffer, decoder |-> r.decoder]},
                      !.ev = [op |-> "lines", id |-> c.id, lines |-> r.out,
                              to |-> dataCallback, carried |-> c.buffer]]
       ELSE LoopFinally(s, c.id, "stopped", r.out, r.buffer)

\* the continuation of the settled await c, which carries its result
Resume(s, c) ==
    CASE c.fn = "open" /\ c.at = "requestPort" ->
            IF c.result = "ok" THEN PortOpenCall([s EXCEPT !.port = TRUE], c.id)
            ELSE OpenRejected(s, c.id)
      [] c.fn = "open" /\ c.at = "port.open" ->
            IF c.result = "ok"
            THEN OpenTail([s EXCEPT !.portState = "opened"], c.id,
                          c.hasReadable, c.hasWritable)
            ELSE IF c.result = "failed"
            THEN OpenRejected([s EXCEPT !.portState = "closed"], c.id)
            ELSE OpenRejected(s, c.id)
      [] c.fn = "close" /\ c.at = "cancel" ->
            \* this.reader.releaseLock() throws when this.reader is null by now
            IF c.result = "ok" /\ s.reader
            THEN CloseWriterStage([s EXCEPT !.reader = FALSE], c.id)
            ELSE CloseResolved(s, c.id, TRUE)
      [] c.fn = "close" /\ c.at = "writer.close" ->
            IF c.result = "ok" /\ s.writer
            THEN ClosePortStage([s EXCEPT !.writer = FALSE], c.id)
            ELSE CloseResolved(s, c.id, TRUE)
      [] c.fn = "close" /\ c.at = "port.close" ->
            IF c.result = "ok"
            THEN CloseResolved([s EXCEPT !.portState = "closed", !.port = FALSE],
                               c.id, FALSE)
            ELSE IF c.result = "failed"
            THEN CloseResolved([s EXCEPT !.portState = c.left], c.id, TRUE)
            ELSE CloseResolved(s, c.id, TRUE)
      [] c.fn = "loop" /\ c.result = "chunk" -> LoopChunk(s, c)
      [] c.fn = "loop" /\ c.result = "done" -> LoopFinally(s, c.id, "done", <<>>, c.buffer)
      [] c.fn = "loop" /\ c.result = "error" -> LoopFinally(s, c.id, "error", <<>>, c.buffer)

\* calls in flight
InFlight(fn) == {a \in awaits : a.fn = fn} \cup
                {micro[i] : i \in {j \in 1..Len(micro) : micro[j].fn = fn}}

FreshId ==
    CHOOSE i \in 1..(MaxPending + 1) :
        /\ \A a \in InFlight("open") \cup InFlight("close") : a.id /= i
        /\ \A j \in 1..(i - 1) : \E a \in InFlight("open") \cup InFlight("close") : a.id = j

\* the caller makes a call: at most plan.pending calls of open() and close()
\* are in flight at a time (1: every call is awaited before the next)
CanCall == Cardinality(InFlight("open") \cup InFlight("close")) < plan.pending

\* open(): up to the first await
RealOpen ==
    /\ kind = "real"
    /\ CanCall
    /\ cycle + Cardinality(InFlight("open")) < plan.opens
    /\ IF ~serial THEN Apply(OpenRejected(RealState, FreshId))
       ELSE IF ~port
       THEN Apply([RealState EXCEPT
                     !.awaits = @ \cup {[id |-> FreshId, fn |-> "open",
                                         at |-> "requestPort"]},
                     !.ev = [op |-> "open"]])
       ELSE Apply(PortOpenCall(RealState, FreshId))

\* close(): up to the first await
RealClose ==
    /\ kind = "real"
    /\ CanCall
    /\ Apply(CloseReaderStage([RealState EXCEPT !.readLoopActive = FALSE], FreshId))

\* a queued continuation runs
MicroRun ==
    /\ kind = "real"
    /\ micro /= <<>>
    /\ Apply(Resume([RealState EXCEPT !.micro = Tail(@)], Head(micro)))

\* the browser settles navigator.serial.requestPort(): a port, or the user declines
RequestPortSettles ==
    /\ kind = "real"
    /\ micro = <<>>
    /\ \E a \in awaits : \E res \in {"ok", "failed"} :
          /\ a.at = "requestPort"
          /\ Apply(Resume([RealState EXCEPT !.awaits = @ \ {a}],
                          [id |-> a.id, fn |-> a.fn, at |-> a.at, result |-> res]))

\* the browser settles port.open()
PortOpenSettles ==
    /\ kind = "real"
    /\ micro = <<>>
    /\ \E a \in awaits : \E res \in {"ok", "failed"} : \E hasR, hasW \in BOOLEAN :
          /\ a.at = "port.open"
          /\ res = "failed" => (hasR /\ hasW)
          /\ Apply(Resume([RealState EXCEPT !.awaits = @ \ {a}],
                          [id |-> a.id, fn |-> a.fn, at |-> a.at, result |-> res,
                           hasReadable |-> hasR, hasWritable |-> hasW]))

\* the browser settles reader.cancel() or writer.close()
StreamCallSettles ==
    /\ kind = "real"
    /\ micro = <<>>
    /\ \E a \in awaits : \E res \in {"ok", "failed"} :
          /\ a.at \in {"cancel", "writer.close"}
          /\ Apply(Resume([RealState EXCEPT !.awaits = @ \ {a}],
                          [id |-> a.id, fn |-> a.fn, at |-> a.at, result |-> res]))

\* the browser settles port.close()
PortCloseSettles ==
    /\ kind = "real"
    /\ micro = <<>>
    /\ \E a \in awaits : \E res \in {"ok", "failed"} : \E left \in {"opened", "closed"} :
          /\ a.at = "port.close"
          /\ res = "ok" => left = "closed"
          /\ Apply(Resume([RealState EXCEPT !.awaits = @ \ {a}],
                          [id |-> a.id, fn |-> a.fn, at |-> a.at, result |-> res,
                           left |-> left]))

RealChunks == {<<LetterA>>, <<LF>>, <<LetterA, LF>>}

\* reader.read() resolves with a chunk
ReadResolves ==
    /\ kind = "real"
    /\ micro = <<>>
    /\ reads < MaxReads
    /\ rstate = "readable"
    /\ \E a \in awaits : \E chunk \in RealChunks :
          /\ a.fn = "loop"
          /\ Apply(Resume([RealState EXCEPT !.awaits = @ \ {a}, !.reads = @ + 1],
                          [id |-> a.id, fn |-> "loop", at |-> "read", result |-> "chunk",
                           chunk |-> chunk, buffer |-> a.buffer, decoder |-> a.decoder]))

\* the stream ends (done) or fails (the device is unplugged): the pending read
\* settles
StreamEnds ==
    /\ kind = "real"
    /\ micro = <<>>
    /\ rstate = "readable"
    /\ \E a \in awaits : \E res \in {"done", "error"} :
          /\ a.fn = "loop"
          /\ Apply(Resume([RealState EXCEPT
                              !.awaits = @ \ {a},
                              !.rstate = IF res = "done" THEN "closed" ELSE "errored"],
                          [id |-> a.id, fn |-> "loop", at |-> "read", result |-> res,
                           buffer |-> a.buffer, decoder |-> a.decoder]))

\* new TextEncoder().encode(data) on the characters used here
EncodeChar(c) ==
    CASE c = "a" -> <<LetterA>>
      [] c = "\n" -> <<LF>>
      [] c = "e-acute" -> <<LeadC3, ContA9>>
      [] OTHER -> <<Replacement>>

RECURSIVE Utf8Encode(_)
Utf8Encode(chars) ==
    IF chars = <<>> THEN <<>> ELSE EncodeChar(Head(chars)) \o Utf8Encode(Tail(chars))

\* the strings the caller of the real transport writes
RealLine == <<"e-acute", "a">>

RealCalls ==
    {[api |-> "writeLine", arg |-> RealLine],
     [api |-> "write", arg |-> RealLine],
     [api |-> "write", arg |-> Append(RealLine, "\n")]}

\* writeLine(line) passing line to write() as it is
RealWriteLineDataBare(line) == line

\* writeLine(line): what it passes to write()
RealWriteLineData(line) == Append(line, "\n")

\* write(data): throws when this.writer is null, else hands the encoded data
\* to writer.write(), which the port takes or refuses
RealWriteBody(call, data) ==
    IF ~writer
    THEN Apply([RealState EXCEPT
                  !.ev = [op |-> "realWrite", api |-> call.api, arg |-> call.arg,
                          threw |-> TRUE, handed |-> <<>>, accepted |-> FALSE]])
    ELSE \E taken \in (IF portState = "opened" THEN BOOLEAN ELSE {FALSE}) :
            Apply([RealState EXCEPT
                     !.ev = [op |-> "realWrite", api |-> call.api, arg |-> call.arg,
                             threw |-> FALSE, handed |-> Utf8Encode(data),
                             accepted |-> taken]])

\* write(data) and writeLine(line) of the real transport
RealWrite ==
    /\ kind = "real"
    /\ \E call \in RealCalls :
          RealWriteBody(call, IF call.api = "writeLine" THEN RealWriteLineData(call.arg)
                              ELSE call.arg)

\* isOpen() looking at the port only
RealIsOpenPortOnly == port

\* isOpen()
RealIsOpen == port /\ readLoopActive

RealNext ==
    \/ onData \/ onError \/ onDisconnect
    \/ RealOpen \/ RealClose
    \/ MicroRun
    \/ RequestPortSettles \/ PortOpenSettles \/ StreamCallSettles \/ PortCloseSettles
    \/ ReadResolves \/ StreamEnds
    \/ RealWrite

----------------------------------------------------------------------------
\* The read loop of serial.ts: startReadLoop(conn, onLine)

ByteStreams == UNION {[1..n -> ByteAlphabet] : n \in 0..MaxStream}

\* const { value, done } = await conn.reader.read(); with a chunk of n bytes
ReadChunk ==
    /\ kind = "framing"
    /\ ~loopDone
    /\ \E n \in 1..(Len(wire) - rd) :
          LET r == FrameChunk(decoder, buffer, SubSeq(wire, rd + 1, rd + n), TRUE)
          IN /\ rd' = rd + n
             /\ decoder' = r.decoder
             /\ buffer' = r.buffer
             /\ lines' = lines \o r.out
    /\ cuts' = cuts + 1
    /\ UNCHANGED <<svars, mvars, kind, plan, wire, loopDone, cbvars, evars, rvars, hvars>>

\* if (done) break;
ReadDone ==
    /\ kind = "framing"
    /\ ~loopDone
    /\ rd = Len(wire)
    /\ loopDone' = TRUE
    /\ UNCHANGED <<svars, mvars, kind, plan, wire, rd, decoder, buffer, lines, cuts, cbvars, evars,
                   rvars, hvars>>

FramingNext == ReadChunk \/ ReadDone

----------------------------------------------------------------------------
\* SerialFactory (factory.ts) and the module functions of serial.ts

Modes == {"auto", "real", "emulated"}

\* a mode or flag that || does not skip: not undefined, null or false
Given(x) == x \notin {Undefined, Null, "false"}

\* typeof navigator !== 'undefined' && 'serial' in navigator
isRealSerialSupported == serial

\* let actualMode = options.mode || this.forcedMode || this.mode, then auto
ActualMode(optMode) ==
    LET m == IF Given(optMode) THEN optMode
             ELSE IF Given(forcedMode) THEN forcedMode
             ELSE mode
    IN IF m = "auto"
       THEN (IF isRealSerialSupported THEN "real" ELSE "emulated")
       ELSE m

\* create() without the detection step of 'auto'
CreateKindUndetected(optMode) ==
    LET m == IF Given(optMode) THEN optMode
             ELSE IF Given(forcedMode) THEN forcedMode
             ELSE mode
    IN IF m = "emulated" THEN "emulated" ELSE "real"

\* the class create() constructs
CreateKind(optMode) ==
    IF ActualMode(optMode) = "emulated" THEN "emulated" ELSE "real"

\* createWithFallback() deciding on the capability alone
FallbackKindByCapability(preferEmulated) ==
    IF ~isRealSerialSupported THEN "emulated" ELSE "real"

\* the class createWithFallback() constructs
FallbackKind(preferEmulated) ==
    IF Given(preferEmulated) \/ ~isRealSerialSupported THEN "emulated" ELSE "real"

\* a connection as its constructor leaves it, seen through isOpen(), the data
\* callback and the configuration a get_config reports
NewConnection(k) ==
    [kind |-> k, isOpen |-> FALSE, dataCallback |-> Undefined, macros |-> "initial"]

\* a factory that hands out the connection it made first
ConstructShared(insts, k) ==
    IF insts = <<>> THEN <<NewConnection(k)>> ELSE insts

\* new EmulatedSerialConnection(..) / new RealSerialConnection()
Construct(insts, k) == Append(insts, NewConnection(k))

FactoryUnchanged ==
    UNCHANGED <<mvars, kind, plan, fvars, cbvars, evars, rvars,
                cycle, opened, notified, armed, track, lastSet>>

\* SerialFactory.setMode(mode)
setMode ==
    /\ kind = "factory"
    /\ \E m \in Modes :
          /\ m /= mode
          /\ mode' = m
    /\ lastEvent' = [op |-> "setMode"]
    /\ UNCHANGED <<forcedMode, instances, globalConnection>>
    /\ FactoryUnchanged

\* SerialFactory.setForceMode(mode)
setForceMode ==
    /\ kind = "factory"
    /\ \E m \in Modes \cup {Null} :
          /\ m /= forcedMode
          /\ forcedMode' = m
    /\ lastEvent' = [op |-> "setForceMode"]
    /\ UNCHANGED <<mode, instances, globalConnection>>
    /\ FactoryUnchanged

\* SerialFactory.create({mode}), also reached as createSerialConnection(mode)
create ==
    /\ kind = "factory"
    /\ Len(instances) < MaxInstances
    /\ \E m \in Modes \cup {Undefined} :
          /\ instances' = Construct(instances, CreateKind(m))
          /\ lastEvent' = [op |-> "create", arg |-> m, made |-> CreateKind(m),
                           before |-> Len(instances), id |-> Len(instances')]
    /\ UNCHANGED <<mode, forcedMode, globalConnection>>
    /\ FactoryUnchanged

\* SerialFactory.createWithFallback({preferEmulated})
createWithFallback ==
    /\ kind = "factory"
    /\ Len(instances) < MaxInstances
    /\ \E prefer \in {Undefined, "false", "true"} :
          /\ instances' = Construct(instances, FallbackKind(prefer))
          /\ lastEvent' = [op |-> "createWithFallback", arg |-> prefer,
                           made |-> FallbackKind(prefer),
                           before |-> Len(instances), id |-> Len(instances')]
    /\ UNCHANGED <<mode, forcedMode, globalConnection>>
    /\ FactoryUnchanged

\* getSerialConnection(): the cached connection, made on the first call
getSerialConnection ==
    /\ kind = "factory"
    /\ IF globalConnection = 0
       THEN /\ Len(instances) < MaxInstances
            /\ instances' = Construct(instances, FallbackKind(Undefined))
            /\ globalConnection' = Len(instances')
       ELSE UNCHANGED <<instances, globalConnection>>
    /\ lastEvent' = [op |-> "getSerialConnection", id |-> globalConnection']
    /\ lastEvent' /= lastEvent
    /\ UNCHANGED <<mode, forcedMode>>
    /\ FactoryUnchanged

\* setSerialConnection(connection)
setSerialConnection ==
    /\ kind = "factory"
    /\ \E i \in 1..Len(instances) :
          /\ i /= globalConnection
          /\ globalConnection' = i
          /\ lastEvent' = [op |-> "setSerialConnection", id |-> i]
    /\ UNCHANGED <<mode, forcedMode, instances>>
    /\ FactoryUnchanged

\* an operation of the connection with handle i
OnInstance(i, name, after) ==
    /\ kind = "factory"
    /\ instances' = [instances EXCEPT ![i] = after]
    /\ lastEvent' = [op |-> name, id |-> i]
    /\ lastEvent' /= lastEvent \/ instances' /= instances
    /\ UNCHANGED <<mode, forcedMode, globalConnection>>
    /\ FactoryUnchanged

\* open() of connection i, to its end: a real one rejects without the capability
InstanceOpen ==
    \E i \in 1..Len(instances) :
        OnInstance(i, "open",
                   IF instances[i].kind = "real" /\ ~serial THEN instances[i]
                   ELSE [instances[i] EXCEPT !.isOpen = TRUE])

\* close() of connection i, to its end
InstanceClose ==
    \E i \in 1..Len(instances) :
        OnInstance(i, "close", [instances[i] EXCEPT !.isOpen = FALSE])

\* onData(callback) of connection i
InstanceOnData ==
    \E i \in 1..Len(instances) :
        OnInstance(i, "onData", [instances[i] EXCEPT !.dataCallback = "onLine"])

\* a valid set_config written to connection i: the mock device of an open
\* emulated connection stores it
InstanceSetConfig ==
    \E i \in 1..Len(instances) :
        /\ instances[i].isOpen
        /\ OnInstance(i, "set_config",
                      IF instances[i].kind = "emulated"
                      THEN [instances[i] EXCEPT !.macros = "set"]
                      ELSE instances[i])

FactoryNext ==
    \/ setMode \/ setForceMode
    \/ create \/ createWithFallback
    \/ getSerialConnection \/ setSerialConnection
    \/ InstanceOpen \/ InstanceClose \/ InstanceOnData \/ InstanceSetConfig

----------------------------------------------------------------------------
\* The page (+page.svelte) handling the lines of its data callback, with the
\* type guards of protocol.ts

\* isConfigMessage(msg): msg && msg.cmd === 'config' && Array.isArray(msg.macros),
\* without the leading msg &&
isConfigMessageUnguarded(msg) ==
    IF ~CanRead(msg) THEN [threw |-> TRUE, holds |-> FALSE]
    ELSE [threw |-> FALSE,
          holds |-> Get(msg, "cmd") = JStr("config") /\ Get(msg, "macros").t = "array"]

\* isConfigMessage(msg): msg && msg.cmd === 'config' && Array.isArray(msg.macros)
isConfigMessage(msg) ==
    IF ~Truthy(msg) THEN [threw |-> FALSE, holds |-> FALSE]
    ELSE IF ~CanRead(msg) THEN [threw |-> TRUE, holds |-> FALSE]
    ELSE [threw |-> FALSE,
          holds |-> Get(msg, "cmd") = JStr("config") /\ Get(msg, "macros").t = "array"]

\* isStatusMessage(msg): msg && typeof msg.status === 'string'
isStatusMessage(msg) ==
    IF ~Truthy(msg) THEN [threw |-> FALSE, holds |-> FALSE]
    ELSE IF ~CanRead(msg) THEN [threw |-> TRUE, holds |-> FALSE]
    ELSE [threw |-> FALSE, holds |-> Get(msg, "status").t = "string"]

\* handleLine(line): JSON.parse in a try block, then the two guards in turn
handleLine(line) ==
    IF line.t /= "json" THEN [threw |-> FALSE, branch |-> "non-json"]
    ELSE LET msg == line.v
             c == isConfigMessage(msg)
         IN IF c.threw THEN [threw |-> TRUE, branch |-> "none"]
            ELSE IF c.holds THEN [threw |-> FALSE, branch |-> "config"]
            ELSE LET st == isStatusMessage(msg)
                 IN IF st.threw THEN [threw |-> TRUE, branch |-> "none"]
                    ELSE IF st.holds THEN [threw |-> FALSE, branch |-> "status"]
                    ELSE [threw |-> FALSE, branch |-> "unknown"]

\* JSON values a line can carry
UiValues ==
    {JNull, JBool(FALSE), JBool(TRUE), JInt(0), JInt(7), JNum(1), JStr(""),
     JStr("config"), JArr(<<>>), JArr(<<JStr("config")>>), JObj(<<>>),
     JObj([cmd |-> JStr("config"), macros |-> JArr(MacroArray(NumSlots, 4, TRUE))]),
     JObj([cmd |-> JStr("config"), macros |-> JArr(<<>>)]),
     JObj([cmd |-> JStr("config"), macros |-> JNull]),
     JObj([cmd |-> JStr("config")]),
     JObj([cmd |-> JStr("set_config"), macros |-> JArr(<<>>)]),
     JObj([status |-> JStr("ok"), cmd |-> JStr("set_config")]),
     JObj([status |-> JStr("error"), reason |-> JStr("bad index")]),
     JObj([status |-> JStr("")]),
     JObj([status |-> JInt(1)]),
     JObj([status |-> JNull, cmd |-> JStr("test_macro")]),
     JObj([cmd |-> JStr("config"), macros |-> JArr(<<>>), status |-> JStr("ok")])}

\* the lines a data callback can be handed
UiLines ==
    {JsonLine(v) : v \in UiValues}
    \cup {ReadyLine, NoiseLine, HelpLine, OkLine, TextLine("{\"cmd\":")}

\* conn.onData((line) => { ...; handleLine(line) }): one line handled
HandleLine ==
    /\ kind = "ui"
    /\ Len(lines) < MaxHandled
    /\ \E line \in UiLines :
          LET r == handleLine(line)
          IN /\ lines' = Append(lines, line)
             /\ lastEvent' = [op |-> "handleLine", line |-> line, threw |-> r.threw,
                              branch |-> r.branch]
    /\ UNCHANGED <<svars, mvars, kind, plan, wire, rd, decoder, buffer, loopDone, cuts,
                   cbvars, evars, rvars,
                   cycle, opened, notified, armed, track, lastSet>>

UiNext == HandleLine

----------------------------------------------------------------------------
\* monitorState and monitorActions (store.ts)

\* maxLogLines: 200
DefaultMaxLogLines == 200

\* addLog calls made
MaxLogged == 203

TxInputs == {"", "get"}

\* the log after addLog, keeping the first maxLogLines entries
updatedLogKeepsFirst(state, newLog) ==
    LET all == Append(state, newLog) IN
    IF Len(all) > maxLogLines THEN SubSeq(all, 1, maxLogLines) ELSE all

\* let updatedLog = [...state.log, newLog]; if (updatedLog.length >
\* state.maxLogLines) updatedLog = updatedLog.slice(updatedLog.length -
\* state.maxLogLines)
updatedLog(state, newLog) ==
    LET all == Append(state, newLog) IN
    IF Len(all) > maxLogLines
    THEN SubSeq(all, Len(all) - maxLogLines + 1, Len(all))
    ELSE all

MonitorUnchanged ==
    UNCHANGED <<svars, kind, plan, fvars, cbvars, evars, rvars,
                cycle, opened, notified, armed, track, lastSet>>

\* monitorActions.addLog(message): the caller's messages are numbered
addLog ==
    /\ kind = "monitor"
    /\ clock < MaxLogged
    /\ clock' = clock + 1
    /\ log' = updatedLog(log, [timestamp |-> clock', message |-> clock'])
    /\ lastEvent' = [op |-> "addLog"]
    /\ UNCHANGED <<txInput, maxLogLines>>
    /\ MonitorUnchanged

\* monitorActions.setTxInput(input)
setTxInput ==
    /\ kind = "monitor"
    /\ \E input \in TxInputs :
          /\ input /= txInput
          /\ txInput' = input
    /\ lastEvent' = [op |-> "setTxInput"]
    /\ UNCHANGED <<log, maxLogLines, clock>>
    /\ MonitorUnchanged

\* monitorActions.clearLog()
clearLog ==
    /\ kind = "monitor"
    /\ log' = <<>>
    /\ lastEvent' = [op |-> "clearLog"]
    /\ lastEvent' /= lastEvent
    /\ UNCHANGED <<txInput, maxLogLines, clock>>
    /\ MonitorUnchanged

MonitorNext == addLog \/ setTxInput \/ clearLog

----------------------------------------------------------------------------
\* Initial states

\* the read loop of serial.ts before its first read
FramingIdle ==
    /\ rd = 0
    /\ decoder = <<>>
    /\ buffer = <<>>
    /\ lines = <<>>
    /\ loopDone = FALSE
    /\ cuts = 0

\* no callback registered
CallbacksInit ==
    /\ dataCallback = Undefined
    /\ errorCallback = Undefined
    /\ disconnectCallback = Undefined

\* new EmulatedSerialConnection(options), new MockMacroPadDevice(deviceType)
EmulatedInit ==
    /\ isConnected = FALSE
    /\ opening = 0
    /\ responseCallback = FALSE
    /\ heartbeatInterval = FALSE
    /\ intervals = 0
    /\ timers = {}

\* new RealSerialConnection()
RealInit ==
    /\ port = FALSE
    /\ portState = "closed"
    /\ reader = FALSE
    /\ writer = FALSE
    /\ rstate = "closed"
    /\ readLoopActive = FALSE
    /\ awaits = {}
    /\ micro = <<>>
    /\ reads = 0

\* the factory has made the one connection of the model
FactoryIdle ==
    /\ mode = "real"
    /\ forcedMode = Null
    /\ instances = <<>>
    /\ globalConnection = 0

\* writable({ log: [], txInput: '', maxLogLines: 200 })
MonitorInit ==
    /\ log = <<>>
    /\ txInput = ""
    /\ maxLogLines = DefaultMaxLogLines
    /\ clock = 0

HistoryInit ==
    /\ cycle = 0
    /\ opened = FALSE
    /\ notified = 0
    /\ armed = FALSE
    /\ track = <<>>
    /\ lastSet = JUndef
    /\ lastEvent = [op |-> "new"]

FramingInit ==
    /\ kind = "framing"
    /\ plan = [opens |-> 0, writes |-> 0, payloads |-> "none", pending |-> 1, handlers |-> 1]
    /\ wire \in ByteStreams
    /\ FramingIdle
    /\ CallbacksInit /\ EmulatedInit /\ RealInit /\ HistoryInit /\ MonitorInit /\ FactoryIdle
    /\ deviceType = "stable"
    /\ macroConfig = initializeMacroConfig(ColorDraw)
    /\ serial = FALSE

InitProtocol ==
    /\ kind = "emulated"
    /\ plan = [opens |-> ProtocolOpens, writes |-> MaxWrites, payloads |-> "all",
               pending |-> MaxPending, handlers |-> 1]
    /\ wire = <<>>
    /\ FramingIdle
    /\ CallbacksInit /\ EmulatedInit /\ RealInit /\ HistoryInit /\ MonitorInit /\ FactoryIdle
    /\ deviceType \in DeviceTypes
    /\ macroConfig = initializeMacroConfig(ColorDraw)
    /\ serial = FALSE

InitEmulated ==
    /\ kind = "emulated"
    /\ plan = [opens |-> MaxOpens, writes |-> SessionWrites, payloads |-> "core",
               pending |-> MaxPending, handlers |-> 1]
    /\ wire = <<>>
    /\ FramingIdle
    /\ CallbacksInit /\ EmulatedInit /\ RealInit /\ HistoryInit /\ MonitorInit /\ FactoryIdle
    /\ deviceType \in DeviceTypes
    /\ macroConfig = initializeMacroConfig(ColorDraw)
    /\ serial = FALSE

InitReal ==
    /\ kind = "real"
    /\ \E p \in {1, MaxPending} :
          plan = [opens |-> MaxOpens, writes |-> 0, payloads |-> "none", pending |-> p, handlers |-> 1]
    /\ wire = <<>>
    /\ FramingIdle
    /\ CallbacksInit /\ EmulatedInit /\ RealInit /\ HistoryInit /\ MonitorInit /\ FactoryIdle
    /\ deviceType = "stable"
    /\ macroConfig = initializeMacroConfig(ColorDraw)
    /\ serial \in BOOLEAN

\* the module as loaded: import.meta.env.DEV ? 'emulated' : 'real'
FactoryInit ==
    /\ kind = "factory"
    /\ plan = [opens |-> 0, writes |-> 0, payloads |-> "none", pending |-> 1, handlers |-> 1]
    /\ wire = <<>>
    /\ FramingIdle
    /\ CallbacksInit /\ EmulatedInit /\ RealInit /\ HistoryInit /\ MonitorInit
    /\ deviceType = "stable"
    /\ macroConfig = initializeMacroConfig(ColorDraw)
    /\ serial \in BOOLEAN
    /\ mode \in {"emulated", "real"}
    /\ forcedMode = Null
    /\ instances = <<>>
    /\ globalConnection = 0

\* either connection in one short session, the caller registering each
\* callback a second time
InitSubscribers ==
    /\ kind \in {"emulated", "real"}
    /\ plan = [opens |-> 1, writes |-> SessionWrites, payloads |-> "core",
               pending |-> 1, handlers |-> 2]
    /\ wire = <<>>
    /\ FramingIdle
    /\ CallbacksInit /\ EmulatedInit /\ RealInit /\ HistoryInit /\ MonitorInit /\ FactoryIdle
    /\ deviceType \in IF kind = "emulated" THEN {"stable", "unstable"} ELSE {"stable"}
    /\ macroConfig = initializeMacroConfig(ColorDraw)
    /\ serial = (kind = "real")

\* the page with its handler registered
UiInit ==
    /\ kind = "ui"
    /\ plan = [opens |-> 0, writes |-> 0, payloads |-> "none", pending |-> 1, handlers |-> 1]
    /\ wire = <<>>
    /\ FramingIdle
    /\ CallbacksInit /\ EmulatedInit /\ RealInit /\ HistoryInit /\ MonitorInit /\ FactoryIdle
    /\ deviceType = "stable"
    /\ macroConfig = initializeMacroConfig(ColorDraw)
    /\ serial = FALSE

Init == InitEmulated \/ InitReal

Next == EmulatedNext \/ RealNext

\* the read loop of serial.ts on its own
SpecFraming == FramingInit /\ [][FramingNext]_vars

\* an EmulatedSerialConnection
SpecEmulated == InitEmulated /\ [][EmulatedNext]_vars

\* an EmulatedSerialConnection used for one session, with every payload
SpecProtocol == InitProtocol /\ [][ProtocolNext]_vars

\* an EmulatedSerialConnection that is closed and opened again between writes
InitReopen ==
    /\ kind = "emulated"
    /\ plan = [opens |-> MaxOpens, writes |-> MaxWrites, payloads |-> "session",
               pending |-> 1, handlers |-> 1]
    /\ wire = <<>>
    /\ FramingIdle
    /\ CallbacksInit /\ EmulatedInit /\ RealInit /\ HistoryInit /\ MonitorInit /\ FactoryIdle
    /\ deviceType \in DeviceTypes
    /\ macroConfig = initializeMacroConfig(ColorDraw)
    /\ serial = FALSE

SpecReopen == InitReopen /\ [][ProtocolNext]_vars

\* the serial monitor's store
InitMonitor ==
    /\ kind = "monitor"
    /\ plan = [opens |-> 0, writes |-> 0, payloads |-> "none", pending |-> 1, handlers |-> 1]
    /\ wire = <<>>
    /\ FramingIdle
    /\ CallbacksInit /\ EmulatedInit /\ RealInit /\ HistoryInit /\ MonitorInit /\ FactoryIdle
    /\ deviceType = "stable"
    /\ macroConfig = initializeMacroConfig(ColorDraw)
    /\ serial = FALSE

SpecMonitor == InitMonitor /\ [][MonitorNext]_vars

\* SerialFactory and the connections it hands out
SpecFactory == FactoryInit /\ [][FactoryNext]_vars

\* either connection, with callbacks registered again
SpecSubscribers == InitSubscribers /\ [][Next]_vars

\* the page's line handler
SpecUi == UiInit /\ [][UiNext]_vars

\* a RealSerialConnection whose caller awaits every call
InitRealAwaited == InitReal /\ plan.pending = 1

\* the microtask queue is always drained, and the browser settles every
\* reader.cancel(), writer.close() and port.close()
RealFairness ==
    /\ WF_vars(MicroRun)
    /\ WF_vars(StreamCallSettles)
    /\ WF_vars(PortCloseSettles)

SpecRealFair == InitRealAwaited /\ [][RealNext]_vars /\ RealFairness

\* a RealSerialConnection
SpecReal == InitReal /\ [][RealNext]_vars

\* either connection, as SerialFactory.create returns one or the other
Spec == Init /\ [][Next]_vars

\* isOpen() of the connection
isOpen == IF kind = "real" THEN RealIsOpen ELSE isConnected

----------------------------------------------------------------------------
\* Reference for the framing claims: the segments of a text that end in a
\* newline, trimmed, the empty ones left out.

LFPositions(text) == {i \in 1..Len(text) : text[i] = LF}

SegmentEndingAt(text, i) ==
    LET before == {j \in LFPositions(text) : j < i}
        start == IF before = {} THEN 1
                 ELSE 1 + CHOOSE j \in before : \A k \in before : k <= j
    IN SubSeq(text, start, i - 1)

RECURSIVE SegmentsUpTo(_, _)
SegmentsUpTo(text, i) ==
    IF i = 0 THEN <<>>
    ELSE LET prev == SegmentsUpTo(text, i - 1) IN
         IF text[i] = LF /\ Trim(SegmentEndingAt(text, i)) /= <<>>
         THEN Append(prev, Trim(SegmentEndingAt(text, i)))
         ELSE prev

TrimmedSegments(text) == SegmentsUpTo(text, Len(text))

WholeText(bytes) == Utf8Decode(<<>>, bytes, <<>>)[1]

\* C1: however the byte stream is cut into chunks, the lines delivered so far
\* are the trimmed non-empty newline-terminated segments of the bytes read so
\* far, in order, and no delivered line contains a newline.
FramingChunkIndependent ==
    /\ lines = TrimmedSegments(WholeText(SubSeq(wire, 1, rd)))
    /\ \A k \in 1..Len(lines) : \A i \in 1..Len(lines[k]) : lines[k][i] /= LF

\* a line whose two-byte character, letter and newline each came in a chunk of
\* their own has been delivered whole
FramingSplitLineDelivered ==
    /\ wire = <<LeadC3, ContA9, LetterA, LF>>
    /\ cuts = 4
    /\ rd = 4
    /\ lines = <<<<233, LetterA>>>>

----------------------------------------------------------------------------
\* Protocol handler of the mock device

KnownCmds == {JStr("get_config"), JStr("set_config"), JStr("test_macro")}

\* the command whose response timer has just run
Processed(cmd) == lastEvent.op = "command" /\ Get(lastEvent.command, "cmd") = JStr(cmd)

\* the macros field is missing, is not an array, or has a length other than 16
BadMacros(v) ==
    LET m == Get(v, "macros") IN
    m = JUndef \/ m.t /= "array" \/ Len(m.a) /= NumSlots

\* the index field is not an integer in [0,16)
BadIndex(v) ==
    LET i == Get(v, "index") IN
    ~(i.t = "number" /\ i.halves % 2 = 0 /\ i.halves >= 0 /\ i.halves < 2 * NumSlots)

\* no timer of the write numbered id is pending
Settled(id) == \A tm \in timers : tm.k = "ready" \/ tm.id /= id

\* C2: a get_config written after a valid set_config carrying M on the same
\* open connection, with no other set_config between them, is answered with a
\* config message whose macros are M.
RoundTripIdentity ==
    (Processed("get_config") /\ lastEvent.expect /= JUndef)
        => lastEvent.line = JsonLine(JObj([cmd |-> JStr("config"),
                                            macros |-> lastEvent.expect]))

\* C3: a set_config whose macros field is missing, not an array or not of
\* length 16 is answered with status error, reason "missing macros", and the
\* stored configuration stays as it was.
SetConfigRejectsBadMacros ==
    (Processed("set_config") /\ BadMacros(lastEvent.command))
        => /\ ~lastEvent.threw
           /\ lastEvent.line = JsonLine(StatusError("missing macros"))
           /\ ~lastEvent.changed

\* a set_config carrying 15 macros has been answered
ShortSetConfigAnswered ==
    /\ Processed("set_config")
    /\ Get(lastEvent.command, "macros").t = "array"
    /\ Len(Get(lastEvent.command, "macros").a) = NumSlots - 1
    /\ lastEvent.delivered

\* C4: a test_macro whose index is not an integer in [0,16) is answered with
\* status error, reason "bad index", and no confirmation line follows it.
TestMacroRejectsBadIndex ==
    /\ (Processed("test_macro") /\ BadIndex(lastEvent.command))
          => lastEvent.line = JsonLine(StatusError("bad index"))
    /\ \A tm \in timers : tm.k = "executed" => ~BadIndex(JObj([index |-> tm.index]))

UnknownCommandRejected ==
    (lastEvent.op = "command" /\ Get(lastEvent.command, "cmd") \notin KnownCmds)
        => /\ ~lastEvent.threw
           /\ lastEvent.line = JsonLine(StatusError("unknown_cmd"))
           /\ ~lastEvent.changed

\* the text is "help" in any case with blanks around it
IsHelp(chars) ==
    \E i \in 1..Len(chars) :
        /\ i + 3 <= Len(chars)
        /\ \A k \in 1..Len(chars) : (k < i \/ k > i + 3) => chars[k] \in {" ", "\n"}
        /\ chars[i] \in {"h", "H"}
        /\ chars[i + 1] \in {"e", "E"}
        /\ chars[i + 2] \in {"l", "L"}
        /\ chars[i + 3] \in {"p", "P"}

ConfigHasSixteenSlots ==
    /\ Len(macroConfig) = NumSlots
    /\ Processed("get_config")
          => /\ lastEvent.line = JsonLine(JObj([cmd |-> JStr("config"),
                                                macros |-> JArr(macroConfig)]))
             /\ Len(lastEvent.line.v.o.macros.a) = NumSlots

\* a get_config has been answered after the configuration was replaced
ReplacedConfigReported ==
    /\ Processed("get_config")
    /\ lastEvent.delivered
    /\ macroConfig = MacroArray(NumSlots, 5, FALSE)

----------------------------------------------------------------------------
\* Connection lifecycle

\* the caller of the real transport awaits each open() and close() before the
\* next call
AwaitsEachCall == kind = "real" => plan.pending = 1

DisconnectOncePerCycle ==
    kind = "emulated" => notified <= (IF cycle = 0 THEN 0 ELSE 1)

\* C11: on the real transport, in a cycle that opened with a disconnect
\* callback registered, the callback is invoked at most once, and it has been
\* invoked once when a close() of that cycle has resolved; a port without a
\* readable stream is no exception.
RealDisconnectOncePerCycle ==
    (kind = "real" /\ cycle >= 1 /\ armed)
        => /\ notified <= 1
           /\ lastEvent.op = "closeResolved" => notified = 1

\* C12: when a close() of the real transport, called with no other call in
\* flight, has resolved, this.reader,
\* this.writer and this.port are cleared and the port is closed, also when
\* reader.cancel(), writer.close() or port.close() failed.
RealCloseReleasesAll ==
    (kind = "real" /\ plan.pending = 1 /\ lastEvent.op = "closeResolved")
        => (~reader /\ ~writer /\ ~port /\ portState = "closed")

\* C13: write() and writeLine() called before an open() has resolved or after
\* a close() has resolved throw and hand nothing to the device, on both
\* transports; on the real transport they also throw when there is no writer.
NotOpenWritesFail ==
    /\ (kind = "emulated" /\ lastEvent.op = "write") => opened
    /\ (kind = "real" /\ plan.pending = 1 /\ lastEvent.op = "realWrite"
        /\ (~opened \/ ~writer))
          => (lastEvent.threw /\ lastEvent.handed = <<>>)

\* the timer that the write numbered id has set
TimerOf(id) == CHOOSE tm \in timers : tm.k \in {"command", "text"} /\ tm.id = id

\* C14 as stated: writeLine(line) hands the device the payload that
\* write(line + "\n") hands it, on both transports.
WriteLineHandsSamePayload ==
    /\ (kind = "emulated" /\ lastEvent.op = "write" /\ lastEvent.api = "writeLine")
          => LET other == WithLF(lastEvent.arg)
                 tm == TimerOf(lastEvent.id)
             IN IF other.form = "json"
                THEN tm.k = "command" /\ tm.command = other.value
                ELSE tm.k = "text" /\ tm.chars = other.chars
    /\ (kind = "real" /\ lastEvent.op = "realWrite" /\ lastEvent.api = "writeLine"
        /\ ~lastEvent.threw)
          => lastEvent.handed = Utf8Encode(lastEvent.arg) \o <<LF>>

\* C14 for what can be observed from outside the device: writeLine(line) does
\* what write(line + "\n") does.  On the simulated
\* transport the device gets the same command, or a text that is answered with
\* the same reply; on the real transport the writer is handed the bytes of line
\* followed by the newline byte, or the call throws where write() throws.
WriteLineIsWriteWithNewline ==
    /\ (kind = "emulated" /\ lastEvent.op = "write" /\ lastEvent.api = "writeLine")
          => LET other == WithLF(lastEvent.arg)
                 tm == TimerOf(lastEvent.id)
             IN IF other.form = "json"
                THEN tm.k = "command" /\ tm.command = other.value
                ELSE /\ tm.k = "text"
                     /\ IsHelp(tm.chars) = IsHelp(other.chars)
                     /\ TextReply(tm.chars) = TextReply(other.chars)
    /\ (kind = "real" /\ lastEvent.op = "realWrite" /\ lastEvent.api = "writeLine")
          => /\ lastEvent.threw = ~writer
             /\ lastEvent.handed = IF ~writer THEN <<>>
                                   ELSE Utf8Encode(lastEvent.arg) \o <<LF>>

\* writeLine has handed a line and its newline to the writer of an open port
RealLineWritten ==
    /\ kind = "real"
    /\ lastEvent.op = "realWrite"
    /\ lastEvent.api = "writeLine"
    /\ lastEvent.accepted
    /\ lastEvent.handed = <<LeadC3, ContA9, LetterA, LF>>

\* C15: isOpen() reports no stale open state.  On the real transport it is
\* false when a read loop has just ended, whatever ended it, and it is true
\* only while a read loop is running; on the simulated transport it is false
\* after close() and after triggerDisconnect().
IsOpenNotStale ==
    /\ (kind = "real" /\ lastEvent.op = "loopEnded") => ~isOpen
    /\ (kind = "real" /\ isOpen) => InFlight("loop") /= {}
    /\ (kind = "emulated" /\ lastEvent.op = "close") => ~isOpen

\* the read loop of an open real connection has ended with a read error
RealLoopEndedByError ==
    /\ kind = "real"
    /\ lastEvent.op = "loopEnded"
    /\ lastEvent.why = "error"
    /\ opened
    /\ port
    /\ ~isOpen

\* C16: when processing a parsed JSON payload throws, the deferred handler
\* sends the one line {status: error, cmd: <the command's cmd>, reason:
\* "invalid_command"} and no exception leaves it.
ThrowingCommandAnswered ==
    (lastEvent.op = "command" /\ lastEvent.threw)
        => /\ ~lastEvent.escaped
           /\ \E c \in KnownCmds \cup {JUndef, JStr("reboot")} :
                 lastEvent.line = JsonLine(JObj([status |-> JStr("error"), cmd |-> c,
                                                  reason |-> JStr("invalid_command")]))

\* C17: when an open() of the real transport rejects on a connection that is
\* not open (no serial capability, the port selection declined, or port.open()
\* failed), no read loop has been started, isOpen() is false, and open() can
\* be called again.
RealOpenFailureLeavesClosed ==
    /\ (kind = "real" /\ ~serial) => (cycle = 0 /\ ~port /\ ~isOpen)
    /\ (kind = "real" /\ lastEvent.op = "openRejected" /\ ~opened)
        => /\ ~isOpen
           /\ ~readLoopActive
           /\ (plan.pending = 1 => InFlight("loop") = {})
           /\ (plan.pending = 1 => ENABLED RealOpen)

\* port.open() has failed on a selected port: open() has rejected
RealPortOpenFailed ==
    /\ kind = "real"
    /\ lastEvent.op = "openRejected"
    /\ serial
    /\ port
    /\ ~opened
    /\ cycle = 0
    /\ ~isOpen

\* C18: on the simulated transport isOpen() is true only once the connection
\* delay of an open() has elapsed; the step that makes it true also starts the
\* mock device and sets the one startup timer of that open(); the timer fires
\* once, after open() has resolved, and hands "Device ready" to the data
\* callback registered at that moment.
EmulatedOpenStartsOnce ==
    kind = "emulated" =>
        /\ isConnected => cycle >= 1
        /\ \A tm \in timers : tm.k = "ready" => (tm.cycle >= 1 /\ tm.cycle <= cycle)
        /\ lastEvent.op = "open" => (isConnected <=> opened)
        /\ lastEvent.op = "opened" =>
              /\ isConnected
              /\ responseCallback
              /\ deviceType = "unstable" => heartbeatInterval
              /\ [k |-> "ready", cycle |-> cycle] \in timers
        /\ lastEvent.op = "ready" =>
              /\ lastEvent.cycle >= 1
              /\ lastEvent.cycle <= cycle
              /\ [k |-> "ready", cycle |-> lastEvent.cycle] \notin timers
              /\ lastEvent.line = ReadyLine
              /\ lastEvent.to /= Undefined => lastEvent.delivered

\* the startup line of the current open() has reached the data callback
DeviceReadyDelivered ==
    /\ kind = "emulated"
    /\ lastEvent.op = "ready"
    /\ lastEvent.delivered
    /\ lastEvent.cycle = cycle
    /\ isConnected

\* C19: once close() has resolved on a simulated connection, and until open()
\* is called again, no timer of the connection (startup line, command
\* response, test_macro confirmation, heartbeat noise) hands a line to the
\* data callback.
NoDeliveryAfterClose ==
    (/\ kind = "emulated"
     /\ lastEvent.op \in {"ready", "command", "executed", "text", "noise"}
     /\ lastEvent.delivered)
        => (opened \/ opening > 0)

\* C20: on the simulated transport a response or confirmation line is handed
\* to the data callback only during the open cycle in which its command was
\* written, and a startup line handed over while the connection is open is
\* the one of the current cycle.
NoCrossCycleDelivery ==
    kind = "emulated" =>
        /\ (lastEvent.op \in {"command", "executed", "text"} /\ lastEvent.delivered)
              => track[lastEvent.id].cycle = cycle
        /\ (lastEvent.op = "ready" /\ lastEvent.delivered /\ opened)
              => lastEvent.cycle = cycle

\* the transport a mode stands for: auto is real with the capability
TransportOf(m) ==
    IF m = "auto" THEN (IF serial THEN "real" ELSE "emulated") ELSE m

\* C21: with a forced mode set, create() makes the transport of the forced
\* mode whatever mode the call passes; only without a forced mode does the
\* mode of the call decide.
ForcedModeWins ==
    (kind = "factory" /\ lastEvent.op = "create") =>
        /\ forcedMode /= Null => lastEvent.made = TransportOf(forcedMode)
        /\ (forcedMode = Null /\ lastEvent.arg /= Undefined)
              => lastEvent.made = TransportOf(lastEvent.arg)

\* the mode create() works with: the call's, else the forced, else the default
EffectiveMode(arg) ==
    IF arg /= Undefined THEN arg
    ELSE IF forcedMode /= Null THEN forcedMode
    ELSE mode

\* C22: create() with effective mode auto makes a Real transport exactly when
\* the serial capability is detected; with emulated it makes a Simulated one
\* and with real a Real one, whatever the capability.
AutoFollowsCapability ==
    (kind = "factory" /\ lastEvent.op = "create") =>
        LET m == EffectiveMode(lastEvent.arg) IN
        /\ m = "auto" => (lastEvent.made = "real" <=> serial)
        /\ m = "auto" => lastEvent.made \in {"real", "emulated"}
        /\ m = "emulated" => lastEvent.made = "emulated"
        /\ m = "real" => lastEvent.made = "real"
        /\ instances[lastEvent.id].kind = lastEvent.made

\* create() in auto mode without the capability has made a Simulated transport
AutoFellBack ==
    /\ kind = "factory"
    /\ lastEvent.op = "create"
    /\ EffectiveMode(lastEvent.arg) = "auto"
    /\ ~serial
    /\ lastEvent.made = "emulated"

InstanceOps == {"open", "close", "onData", "set_config"}

\* C23: every create() and createWithFallback() returns a connection that did
\* not exist before, in its constructed state; and an operation on one
\* connection, like the construction of a new one, leaves every other
\* connection as it was.
InstancesShareNothing ==
    /\ [](kind = "factory" /\ lastEvent.op \in {"create", "createWithFallback"}
            => /\ lastEvent.id = lastEvent.before + 1
               /\ lastEvent.id = Len(instances)
               /\ instances[lastEvent.id] = NewConnection(lastEvent.made))
    /\ [][kind = "factory" =>
            \A j \in 1..Len(instances) :
                /\ j \in 1..Len(instances')
                /\ (lastEvent'.op \in InstanceOps => lastEvent'.id /= j)
                      => instances'[j] = instances[j]]_vars

\* the first connection is open, has a callback and a stored configuration;
\* the second is still as constructed
SecondInstanceUntouched ==
    /\ kind = "factory"
    /\ Len(instances) = 2
    /\ lastEvent.op = "set_config"
    /\ lastEvent.id = 1
    /\ instances[1].isOpen
    /\ instances[1].dataCallback /= Undefined
    /\ instances[1].macros = "set"
    /\ instances[2] = NewConnection("emulated")

\* C24: createWithFallback() makes a Simulated transport when preferEmulated is
\* set or the serial capability is not detected, and a Real one otherwise.
FallbackChoice ==
    (kind = "factory" /\ lastEvent.op = "createWithFallback") =>
        /\ lastEvent.made = "emulated" <=> (lastEvent.arg = "true" \/ ~serial)
        /\ lastEvent.made = "real" <=> (lastEvent.arg /= "true" /\ serial)
        /\ instances[lastEvent.id].kind = lastEvent.made

\* preferEmulated has made a Simulated transport although the capability is there
PreferredEmulated ==
    /\ kind = "factory"
    /\ lastEvent.op = "createWithFallback"
    /\ lastEvent.arg = "true"
    /\ serial
    /\ lastEvent.made = "emulated"

\* C25: each event kind has one callback slot.  A registration replaces the
\* callback registered before it, whether open() has completed or not, and
\* every line, error and disconnect notification goes to the callback that
\* was registered last for its kind.
LastRegistrationWins ==
    IsConnection =>
        /\ lastEvent.op = "onData" => dataCallback = lastEvent.cb
        /\ lastEvent.op = "onError" => errorCallback = lastEvent.cb
        /\ lastEvent.op = "onDisconnect" => disconnectCallback = lastEvent.cb
        /\ lastEvent.op \in {"ready", "command", "executed", "text", "noise"} =>
              /\ lastEvent.to = dataCallback
              /\ lastEvent.delivered => lastEvent.to /= Undefined
        /\ lastEvent.op = "lines" => lastEvent.to = dataCallback
        /\ lastEvent.op = "loopEnded" =>
              /\ lastEvent.errorTo = errorCallback
              /\ lastEvent.disconnectTo = disconnectCallback
              /\ lastEvent.error => lastEvent.errorTo /= Undefined
              /\ lastEvent.notified => lastEvent.disconnectTo /= Undefined
        /\ (kind = "emulated" /\ lastEvent.op = "close") =>
              /\ lastEvent.disconnectTo = disconnectCallback
              /\ lastEvent.notified => lastEvent.disconnectTo /= Undefined

\* the startup line has gone to the data callback registered second, both
\* registrations made before open() completed
SecondCallbackGotLine ==
    /\ kind = "emulated"
    /\ plan.handlers = 2
    /\ lastEvent.op = "ready"
    /\ lastEvent.delivered
    /\ lastEvent.to = "onLineLater"
    /\ dataCallback = "onLineLater"

UiDropsOtherLines ==
    (kind = "ui" /\ lastEvent.op = "handleLine") =>
        LET line == lastEvent.line
            isObject == line.t = "json" /\ line.v.t = "object"
            configShaped == /\ isObject
                            /\ "cmd" \in DOMAIN line.v.o
                            /\ line.v.o["cmd"] = JStr("config")
                            /\ "macros" \in DOMAIN line.v.o
                            /\ line.v.o["macros"].t = "array"
            statusShaped == /\ isObject
                            /\ "status" \in DOMAIN line.v.o
                            /\ line.v.o["status"].t = "string"
        IN /\ ~lastEvent.threw
           /\ line.t /= "json" => lastEvent.branch = "non-json"
           /\ (line.t = "json" /\ ~configShaped /\ ~statusShaped)
                 => lastEvent.branch = "unknown"
           /\ (line.t = "json" /\ ~isObject) => lastEvent.branch = "unknown"
           /\ lastEvent.branch = "config" <=> configShaped
           /\ lastEvent.branch = "status" <=> (statusShaped /\ ~configShaped)

\* the line null has been handled and dropped
NullLineDropped ==
    /\ kind = "ui"
    /\ lastEvent.op = "handleLine"
    /\ lastEvent.line = JsonLine(JNull)
    /\ lastEvent.branch = "unknown"
    /\ ~lastEvent.threw

\* C28: close() on a real connection cancels the reader, which ends the
\* pending read; no read stays pending once close() has been called, and
\* every close() resolves, at which point the read loop has ended.
CloseInterruptsRead ==
    /\ []((kind = "real" /\ InFlight("close") /= {}) => PendingReads(RealState) = {})
    /\ (kind = "real" /\ InFlight("close") /= {})
          ~> (InFlight("close") = {} /\ InFlight("loop") = {} /\ ~readLoopActive)

\* close() has been called with a read pending: the read has been woken with
\* done and the cancel is with the browser
ReadCancelledByClose ==
    /\ kind = "real"
    /\ opened
    /\ lastEvent.op = "close"
    /\ \E a \in awaits : a.fn = "close" /\ a.at = "cancel"
    /\ \E i \in 1..Len(micro) : micro[i].fn = "loop" /\ micro[i].result = "done"

\* C29: a real connection never has more than one read loop running, hence
\* never more than one reader.read() outstanding, whatever the interleaving
\* of open() and close() calls; and readLoopActive is set only while a loop
\* runs.
OneReadLoop ==
    kind = "real" =>
        /\ Cardinality(InFlight("loop")) <= 1
        /\ Cardinality(PendingReads(RealState)) <= 1
        /\ readLoopActive => InFlight("loop") /= {}

\* the read loop of a second open() runs alone, the first one having been
\* ended by close()
SecondLoopRunsAlone ==
    /\ kind = "real"
    /\ cycle = 2
    /\ lastEvent.op = "openResolved"
    /\ lastEvent.loop
    /\ readLoopActive
    /\ Cardinality(InFlight("loop")) = 1

\* C30: when a read of a real connection fails, the read loop invokes the
\* error callback and then the disconnect callback, once each; when the
\* stream ends normally it invokes the disconnect callback alone.  With every
\* call awaited, that is the only disconnect notification of the cycle.
ErrorThenDisconnect ==
    (kind = "real" /\ lastEvent.op = "loopEnded") =>
        LET expectError == IF errorCallback /= Undefined THEN <<"error">> ELSE <<>>
            expectGone == IF disconnectCallback /= Undefined THEN <<"disconnect">>
                          ELSE <<>>
        IN /\ lastEvent.why = "error" => lastEvent.calls = expectError \o expectGone
           /\ lastEvent.why /= "error" => lastEvent.calls = expectGone
           /\ (plan.pending = 1 /\ disconnectCallback /= Undefined) => notified = 1

\* a read has failed with both callbacks registered
ReadFailedBothNotified ==
    /\ kind = "real"
    /\ lastEvent.op = "loopEnded"
    /\ lastEvent.why = "error"
    /\ lastEvent.calls = <<"error", "disconnect">>
    /\ notified = 1

\* the write with this id has had its response delivered
Answered(id) == \E i \in 1..Len(track[id].got) : track[id].got[i] = "response"

\* C31: on a simulated connection the response to a write is delivered before
\* the response to any write made after it.
ResponsesInWriteOrder ==
    (/\ kind = "emulated"
     /\ lastEvent.op \in {"command", "text"}
     /\ lastEvent.delivered)
        => \A later \in (lastEvent.id + 1)..Len(track) : ~Answered(later)

\* the number of responses delivered for the write with this id
Responses(id) ==
    Cardinality({i \in 1..Len(track[id].got) : track[id].got[i] = "response"})

\* C32: when the response to a write accepted by a simulated connection
\* becomes due, the connection having stayed open with a data callback
\* registered since the write, one response line is delivered for it, the
\* first and only one; for get_config it is a config message of 16 macros.
EveryWriteAnswered ==
    (/\ kind = "emulated"
     /\ lastEvent.op \in {"command", "text"}
     /\ track[lastEvent.id].steady)
        => /\ lastEvent.delivered
           /\ Responses(lastEvent.id) = 1
           /\ (lastEvent.op = "command"
               /\ lastEvent.command = JObj([cmd |-> JStr("get_config")]))
                 => /\ lastEvent.line.t = "json"
                    /\ Get(lastEvent.line.v, "cmd") = JStr("config")
                    /\ Get(lastEvent.line.v, "macros").t = "array"
                    /\ (lastEvent.expect = JUndef /\ lastSet = JUndef)
                          => Len(Get(lastEvent.line.v, "macros").a) = NumSlots

IsPrefixOf(p, q) == Len(p) <= Len(q) /\ SubSeq(q, 1, Len(p)) = p

HasNoLF(q) == \A i \in 1..Len(q) : q[i] /= LF

\* every delivered line is non-empty and has no white space at either end
LinesAreTrimmed ==
    \A k \in 1..Len(lines) :
        /\ lines[k] /= <<>>
        /\ Head(lines[k]) \notin WhiteSpace
        /\ lines[k][Len(lines[k])] \notin WhiteSpace

CloseDuringOpenWins ==
    [][(/\ kind = "emulated"
        /\ lastEvent.op = "close"
        /\ opening = 1
        /\ lastEvent'.op = "opened")
          => (~isConnected' /\ ~responseCallback')]_vars

LeftoverTextIsLost ==
    kind = "real" =>
       /\ (lastEvent.op = "loopEnded" /\ lastEvent.why \in {"done", "error"})
             => lastEvent.lines = <<>>
       /\ (lastEvent.op = "openResolved" /\ lastEvent.loop)
             => \A a \in PendingReads(RealState) : a.buffer = <<>> /\ a.decoder = <<>>
       /\ (lastEvent.op = "lines" /\ lastEvent.carried = <<>> /\ lastEvent.to /= Undefined)
             => \A i \in 1..Len(lastEvent.lines) :
                   Len(lastEvent.lines[i]) <= 1

\* the loop of the first cycle has left "a", and the first chunk of the second
\* cycle, "a\n", is delivered as the line "a"
SecondCycleStartsClean ==
    /\ kind = "real"
    /\ cycle = 2
    /\ buffer = <<LetterA>>
    /\ lastEvent.op = "lines"
    /\ lastEvent.carried = <<>>
    /\ lastEvent.to /= Undefined
    /\ lastEvent.lines = <<<<LetterA>>>>

\* a step that hands a line to the data callback
Delivers(ev) ==
    \/ /\ kind = "emulated"
       /\ ev.op \in {"command", "executed", "text", "ready", "noise"}
       /\ ev.delivered
    \/ /\ kind = "real"
       /\ ev.op \in {"lines", "loopEnded"}
       /\ ev.lines /= <<>>

\* C37: lines produced while no data callback is registered are dropped, not
\* queued.  A line is handed over only in the step that frames it (Real) or in
\* which the response timer fires (Simulated), and only to the callback
\* registered before that step; registering a callback hands over nothing, and
\* once the timers of a write have fired, what the write has got never changes.
DroppedNotQueued ==
    /\ [][Delivers(lastEvent')
            => /\ dataCallback /= Undefined
               /\ lastEvent'.to = dataCallback
               /\ dataCallback' = dataCallback]_vars
    /\ [][lastEvent'.op = "onData" => track' = track]_vars
    /\ [][\A id \in 1..Len(track) :
            Settled(id) => /\ id <= Len(track')
                           /\ track'[id].got = track[id].got]_vars

\* the answer to a text command became due on an open connection with no data
\* callback, and a data callback has been registered since
RegisteredAfterDrop ==
    /\ kind = "emulated"
    /\ lastEvent.op = "onData"
    /\ dataCallback /= Undefined
    /\ isConnected
    /\ cycle = 1
    /\ Len(track) = 1
    /\ track[1].class = "text"
    /\ Settled(1)
    /\ track[1].got = <<>>

\* the answer of the device to a get_config while config is stored
ConfigLine(config) == JsonLine(JObj([cmd |-> JStr("config"), macros |-> JArr(config)]))

\* C38: the stored configuration lives as long as the connection instance:
\* open(), its completion and close() leave the 16 slots as they are, and every
\* get_config is answered with the array stored at that moment, so after a
\* close() and an open() it reports what the set_config before the close stored.
ConfigSurvivesReopen ==
    /\ [][(kind = "emulated" /\ lastEvent'.op \in {"open", "opened", "close"})
             => macroConfig' = macroConfig]_vars
    /\ [][(kind = "emulated" /\ lastEvent' /= lastEvent
                              /\ lastEvent'.op = "command"
                              /\ Get(lastEvent'.command, "cmd") = JStr("get_config"))
             => /\ ~ lastEvent'.threw
                /\ lastEvent'.line = ConfigLine(macroConfig)
                /\ macroConfig' = macroConfig]_vars

\* the set_config written in the first cycle has been stored, the connection
\* was closed and is open again, and the get_config written in the second
\* cycle is answered with the array of the set_config
ReopenedReportsStored ==
    /\ kind = "emulated"
    /\ cycle = 2
    /\ isConnected
    /\ Processed("get_config")
    /\ lastEvent.id = 2
    /\ lastEvent.delivered
    /\ track[1].cycle = 1
    /\ track[2].cycle = 2
    /\ track[1].got = <<"response">>
    /\ macroConfig = MacroArray(NumSlots, 4, TRUE)
    /\ macroConfig /= initializeMacroConfig(ColorDraw)
    /\ lastEvent.line = ConfigLine(MacroArray(NumSlots, 4, TRUE))

\* C39: on the real transport, write() succeeds only where isOpen() is true:
\* a write() made while isOpen() returns false throws and hands nothing to the
\* writer.
WriteOnlyWhenOpen ==
    (kind = "real" /\ lastEvent.op = "realWrite" /\ ~RealIsOpen)
        => /\ lastEvent.threw
           /\ lastEvent.handed = <<>>

\* C40: after any sequence of addLog and clearLog calls the log holds at most
\* maxLogLines (200) entries, and they are the entries added last, in the order
\* in which they were added; adding to a full log drops the oldest entry only,
\* adding to any other log drops nothing.
LogIsBounded ==
    /\ [](kind = "monitor" =>
            /\ maxLogLines = 200
            /\ Len(log) <= maxLogLines
            /\ \A i \in 1..Len(log) : log[i].timestamp = clock - Len(log) + i)
    /\ [][(kind = "monitor" /\ lastEvent'.op = "addLog") =>
            LET newLog == [timestamp |-> clock', message |-> clock'] IN
            IF Len(log) = maxLogLines
            THEN log' = Append(Tail(log), newLog)
            ELSE log' = Append(log, newLog)]_vars

\* an entry has been added to a log that was full: the oldest entry is gone
FullLogDroppedOldest ==
    /\ kind = "monitor"
    /\ lastEvent.op = "addLog"
    /\ Len(log) = 200
    /\ clock = 201
    /\ log[1].message = 2
    /\ log[200].message = 201


====
